---- MODULE Spec2Model ----
(***************************************************************************)
(* Sales analytics pipeline: parse_transactions, validate_and_filter,      *)
(* calculate_total_revenue and enrich_sales_data, as driven by main().      *)
(*                                                                         *)
(* Representation                                                          *)
(*  - a Python str is a sequence of one-character strings;                 *)
(*  - a Python dict is a function whose DOMAIN is the set of its keys;      *)
(*  - an optional value (None or x) is <<>> or <<x>>;                      *)
(*  - a Python float is a record [nan, v]: NaN, or the number v/1000       *)
(*    (v counts thousandths); every float operation rounds its exact       *)
(*    result to SigDigits significant decimal digits, round-half-even, as  *)
(*    IEEE-754 arithmetic rounds to 53 significant bits;                   *)
(*  - a Python int is an Int.                                              *)
(***************************************************************************)
EXTENDS Integers, Sequences, FiniteSets, TLC

VARIABLES
    pc,               \* position in main(), or the call being made
    raw_lines,        \* main: raw_lines, the result of read_sales_data
    transactions,     \* main: transactions, the list handed on by the parser
    skipped_count,    \* parse_transactions: skipped_count
    filter_region,    \* main: filter_region (optional str)
    filter_min,       \* apply_filters: filter_min, as typed
    filter_max,       \* apply_filters: filter_max, as typed
    min_amount,       \* main: min_amount (optional float)
    max_amount,       \* main: max_amount (optional float)
    valid_trans,      \* main: valid_trans
    invalid_count,    \* main: invalid_count
    filter_summary,   \* main: filter_summary
    total_revenue,    \* main: total_revenue (optional float)
    api_products,     \* main: api_products (list of catalog entries)
    product_mapping,  \* main: product_mapping (dict int -> entry)
    enriched_trans,   \* main: enriched_trans
    region_stats,     \* main: region_stats (optional ordered dict)
    top_products,     \* main: top_products (optional list of tuples)
    customer_stats,   \* main: customer_stats (optional ordered dict)
    daily_trend,      \* main: daily_trend (optional ordered dict)
    peak_day,         \* main: peak_day (optional tuple)
    low_products,     \* main: low_products (optional list of tuples)
    top_n,            \* top_selling_products: n
    threshold,        \* low_performing_products: threshold
    report            \* generate_sales_report: the metrics it writes

\* what the analyses of Step 5 produce, the two arguments they take, and
\* what the report of Step 9 holds
analysis_vars == <<region_stats, top_products, customer_stats, daily_trend,
                   peak_day, low_products, top_n, threshold, report>>

\* what the user typed at the two amount prompts of apply_filters
typed_bounds == <<filter_min, filter_max>>

vars == <<pc, raw_lines, transactions, skipped_count, filter_region,
          typed_bounds, min_amount, max_amount, valid_trans, invalid_count,
          filter_summary, total_revenue, api_products, product_mapping,
          enriched_trans, analysis_vars>>

----------------------------------------------------------------------------
(* Bounds of the model.                                                    *)

\* longest list of raw lines given to the parser
MaxLines == 3
\* longest list of transactions given directly to a function
MaxTrans == 3
\* longest list given to the aggregation functions
MaxAgg == 3
\* longest list of catalog entries fetched
MaxProducts == 2
\* significant decimal digits kept by a float operation
SigDigits == 3
\* longest list given to a series of aggregation calls
MaxSeries == 2

\* main: top_selling_products(valid_trans, n=5)
TopN == 5
\* main: low_performing_products(valid_trans, threshold=10)
LowThreshold == 10

----------------------------------------------------------------------------
(* Optional values.                                                        *)

None == <<>>

Some(x) == <<x>>

IsNone(o) == o = <<>>

----------------------------------------------------------------------------
(* Floats.                                                                 *)

NaN == [nan |-> TRUE, v |-> 0]

Num(n) == [nan |-> FALSE, v |-> n]

Abs(n) == IF n < 0 THEN 0 - n ELSE n

RECURSIVE Pow10(_)
Pow10(k) == IF k <= 0 THEN 1 ELSE 10 * Pow10(k - 1)

RECURSIVE NumDigits(_)
NumDigits(n) == IF n < 10 THEN 1 ELSE 1 + NumDigits(n \div 10)

\* n / unit rounded to the nearest integer, ties to the even one (n >= 0)
RoundHalfEvenDiv(n, unit) ==
    LET q == n \div unit
        r == n % unit
    IN  IF 2 * r < unit THEN q
        ELSE IF 2 * r > unit THEN q + 1
        ELSE IF q % 2 = 0 THEN q ELSE q + 1

\* the representable number nearest to the exact value n
Fl(n) ==
    LET a    == Abs(n)
        unit == Pow10(NumDigits(a) - SigDigits)
        m    == RoundHalfEvenDiv(a, unit) * unit
    IN  IF n < 0 THEN 0 - m ELSE m

\* int * float
FMul(q, p) == IF p.nan THEN NaN ELSE Num(Fl(q * p.v))

\* float + float
FAdd(a, b) == IF a.nan \/ b.nan THEN NaN ELSE Num(Fl(a.v + b.v))

\* a <= b, a >= b, a > b: every comparison with NaN is false
FLe(a, b) == ~a.nan /\ ~b.nan /\ a.v <= b.v

FGe(a, b) == ~a.nan /\ ~b.nan /\ a.v >= b.v

FGt(a, b) == ~a.nan /\ ~b.nan /\ a.v > b.v

\* round(x, 2): v counts thousandths, so the result is a multiple of 10
Round2(x) ==
    IF x.nan THEN NaN
    ELSE LET m == RoundHalfEvenDiv(Abs(x.v), 10) * 10
         IN  Num(Fl(IF x.v < 0 THEN 0 - m ELSE m))

----------------------------------------------------------------------------
(* Strings.                                                                *)

IsSpace(c) == c \in {" ", "\t"}

RECURSIVE LStrip(_)
LStrip(s) == IF s # <<>> /\ IsSpace(Head(s)) THEN LStrip(Tail(s)) ELSE s

RECURSIVE RStrip(_)
RStrip(s) ==
    IF s # <<>> /\ IsSpace(s[Len(s)]) THEN RStrip(SubSeq(s, 1, Len(s) - 1))
    ELSE s

\* str.strip()
Strip(s) == RStrip(LStrip(s))

\* mutant: str.replace(a, b, 1), which replaces the first occurrence only
RECURSIVE Replace_FirstOnly(_, _, _)
Replace_FirstOnly(s, a, b) ==
    IF s = <<>> THEN <<>>
    ELSE IF Head(s) = a THEN b \o Tail(s)
    ELSE <<Head(s)>> \o Replace_FirstOnly(Tail(s), a, b)

\* str.replace(a, b) for one-character a and a string b
RECURSIVE Replace(_, _, _)
Replace(s, a, b) ==
    IF s = <<>> THEN <<>>
    ELSE (IF Head(s) = a THEN b ELSE <<Head(s)>>) \o Replace(Tail(s), a, b)

\* str.split(sep) for a one-character sep: always at least one field
RECURSIVE Split(_, _)
Split(s, sep) ==
    IF \A i \in 1..Len(s) : s[i] # sep THEN <<s>>
    ELSE LET k == CHOOSE i \in 1..Len(s) :
                      s[i] = sep /\ \A j \in 1..(i - 1) : s[j] # sep
         IN  <<SubSeq(s, 1, k - 1)>> \o Split(SubSeq(s, k + 1, Len(s)), sep)

\* str.startswith(c) for a one-character c
StartsWith(s, c) == s # <<>> /\ Head(s) = c

DigitChars == <<"0", "1", "2", "3", "4", "5", "6", "7", "8", "9">>

IsDigit(c) == \E i \in 1..10 : DigitChars[i] = c

DigitVal(c) == (CHOOSE i \in 1..10 : DigitChars[i] = c) - 1

AllDigits(s) == s # <<>> /\ \A i \in 1..Len(s) : IsDigit(s[i])

\* value of a non-empty string of decimal digits
RECURSIVE DigitsValue(_)
DigitsValue(s) ==
    IF s = <<>> THEN 0
    ELSE 10 * DigitsValue(SubSeq(s, 1, Len(s) - 1)) + DigitVal(s[Len(s)])

IsSign(c) == c \in {"+", "-"}

Unsigned(s) == IF s # <<>> /\ IsSign(Head(s)) THEN Tail(s) ELSE s

Signed(s, n) == IF s # <<>> /\ Head(s) = "-" THEN 0 - n ELSE n

\* int(s): Some(value), or None where int() raises ValueError; int()
\* ignores surrounding whitespace
ParseInt(s) ==
    LET t == Strip(s)
    IN  IF AllDigits(Unsigned(t)) THEN Some(Signed(t, DigitsValue(Unsigned(t))))
        ELSE None

Lower(c) ==
    IF c = "N" THEN "n" ELSE IF c = "A" THEN "a" ELSE IF c = "S" THEN "s" ELSE c

\* float(s): Some(value), or None where float() raises ValueError.
\* Covers [sign] digits [. digits] with at most three fraction digits, and
\* [sign] nan in any letter case; float() ignores surrounding whitespace.
ParseFloat(s) ==
    LET t     == Strip(s)
        u     == Unsigned(t)
        parts == Split(u, ".")
        ip    == parts[1]
        fp    == IF Len(parts) = 2 THEN parts[2] ELSE <<>>
        scale == Pow10(3 - Len(fp))
    IN  IF [i \in 1..Len(u) |-> Lower(u[i])] = <<"n", "a", "n">> THEN Some(NaN)
        ELSE IF /\ Len(parts) <= 2
                /\ Len(fp) <= 3
                /\ ip \o fp # <<>>
                /\ \A i \in 1..Len(ip) : IsDigit(ip[i])
                /\ \A i \in 1..Len(fp) : IsDigit(fp[i])
             THEN Some(Num(Fl(Signed(t, DigitsValue(ip) * 1000
                                        + DigitsValue(fp) * scale))))
             ELSE None

----------------------------------------------------------------------------
(* parse_transactions.                                                     *)

\* the transaction built from one accepted line
Transaction(tid, date, pid, name, qty, price, cid, region) ==
    [TransactionID |-> tid, Date |-> date, ProductID |-> pid,
     ProductName |-> name, Quantity |-> qty, UnitPrice |-> price,
     CustomerID |-> cid, Region |-> region]

\* one pass of the loop body: <<transaction>>, or <<>> when the line is skipped
ParseLine(line) ==
    LET fields         == Split(line, "|")
        quantity_str   == Strip(fields[5])
        unit_price_str == Strip(fields[6])
        quantity       == ParseInt(Replace(quantity_str, ",", <<>>))
        unit_price     == ParseFloat(Replace(unit_price_str, ",", <<>>))
    IN  IF Len(fields) # 8 THEN <<>>
        ELSE IF IsNone(quantity) THEN <<>>
        ELSE IF IsNone(unit_price) THEN <<>>
        ELSE <<Transaction(Strip(fields[1]), Strip(fields[2]),
                           Strip(fields[3]),
                           Replace(Strip(fields[4]), ",", <<" ">>),
                           quantity[1], unit_price[1],
                           Strip(fields[7]), Strip(fields[8]))>>

\* mutant: `break' in place of `continue', so the first skipped line ends
\* the batch
RECURSIVE parse_transactions_AbortsBatch(_)
parse_transactions_AbortsBatch(lines) ==
    IF lines = <<>> THEN [transactions |-> <<>>, skipped_count |-> 0]
    ELSE LET rest == parse_transactions_AbortsBatch(
                         SubSeq(lines, 1, Len(lines) - 1))
             one  == ParseLine(lines[Len(lines)])
         IN  IF rest.skipped_count > 0 THEN rest
             ELSE [transactions  |-> rest.transactions \o one,
                   skipped_count |-> IF one = <<>> THEN 1 ELSE 0]

RECURSIVE parse_transactions(_)
parse_transactions(lines) ==
    IF lines = <<>> THEN [transactions |-> <<>>, skipped_count |-> 0]
    ELSE LET rest == parse_transactions(SubSeq(lines, 1, Len(lines) - 1))
             one  == ParseLine(lines[Len(lines)])
         IN  [transactions  |-> rest.transactions \o one,
              skipped_count |-> rest.skipped_count
                                  + (IF one = <<>> THEN 1 ELSE 0)]

----------------------------------------------------------------------------
(* validate_and_filter.                                                    *)

\* dict.get(k, default)
Get(t, k, default) == IF k \in DOMAIN t THEN t[k] ELSE default

RECURSIVE StrNat(_)
StrNat(n) ==
    IF n < 10 THEN <<DigitChars[n + 1]>>
    ELSE StrNat(n \div 10) \o <<DigitChars[(n % 10) + 1]>>

\* str(n) for an int
StrInt(n) == IF n < 0 THEN <<"-">> \o StrNat(0 - n) ELSE StrNat(n)

\* str(x) for a float: 'nan', or integer part, point and fraction digits
StrFloat(x) ==
    IF x.nan THEN <<"n", "a", "n">>
    ELSE LET a == Abs(x.v)
             f == a % 1000
             fd == IF f % 100 = 0 THEN StrNat(f \div 100)
                   ELSE IF f % 10 = 0
                        THEN <<DigitChars[(f \div 100) + 1]>>
                               \o StrNat((f \div 10) % 10)
                        ELSE <<DigitChars[(f \div 100) + 1],
                               DigitChars[((f \div 10) % 10) + 1]>>
                               \o StrNat(f % 10)
         IN  (IF x.v < 0 THEN <<"-">> ELSE <<>>)
                \o StrNat(a \div 1000) \o <<".">> \o fd

\* a value that is not a float stands where a float is expected as a
\* record naming its type: None, or a str with its text
NoPrice == [py |-> "NoneType"]

TextPrice(text) == [py |-> "str", text |-> text]

IsFloat(value) == "nan" \in DOMAIN value

\* str(trans[field])
Str(field, value) ==
    IF field = "Quantity" THEN StrInt(value)
    ELSE IF field = "UnitPrice"
         THEN IF IsFloat(value) THEN StrFloat(value)
              ELSE IF value.py = "NoneType" THEN <<"N", "o", "n", "e">>
              ELSE value.text
    ELSE value

required_fields == <<"TransactionID", "Date", "ProductID", "ProductName",
                     "Quantity", "UnitPrice", "CustomerID", "Region">>

\* Rule 1: no required field is absent or blank
Rule1(trans) ==
    \A i \in 1..Len(required_fields) :
        LET field == required_fields[i]
        IN  ~(field \notin DOMAIN trans
              \/ Strip(Str(field, trans[field])) = <<>>)

\* Rule 2: not (trans.get('Quantity', 0) <= 0)
Rule2(trans) == ~(Get(trans, "Quantity", 0) <= 0)

\* Rule 3: not (trans.get('UnitPrice', 0) <= 0)
Rule3(trans) == ~FLe(Get(trans, "UnitPrice", Num(0)), Num(0))

\* Rule 3 raises TypeError: <= is not defined between None or a str and 0
Rule3Raises(trans) ==
    "UnitPrice" \in DOMAIN trans /\ ~IsFloat(trans["UnitPrice"])

\* Rules 4-6: str(trans.get(field, '')).startswith(prefix)
RulePrefix(trans, field, prefix) ==
    StartsWith(Get(trans, field, <<>>), prefix)

\* is_valid at the end of the loop body
IsValid(trans) ==
    /\ Rule1(trans)
    /\ Rule2(trans)
    /\ Rule3(trans)
    /\ RulePrefix(trans, "TransactionID", "T")
    /\ RulePrefix(trans, "ProductID", "P")
    /\ RulePrefix(trans, "CustomerID", "C")

\* mutant: trans['Amount'] += ..., which adds to an Amount already there
SetAmount_Accumulates(trans) ==
    [k \in DOMAIN trans \cup {"Amount"} |->
        IF k = "Amount"
        THEN IF "Amount" \in DOMAIN trans
             THEN FAdd(trans["Amount"],
                       FMul(trans["Quantity"], trans["UnitPrice"]))
             ELSE FMul(trans["Quantity"], trans["UnitPrice"])
        ELSE trans[k]]

\* trans['Amount'] = trans['Quantity'] * trans['UnitPrice']
SetAmount(trans) ==
    [k \in DOMAIN trans \cup {"Amount"} |->
        IF k = "Amount" THEN FMul(trans["Quantity"], trans["UnitPrice"])
        ELSE trans[k]]

\* the truth value of an optional str: not None and not ''
Truthy(o) == o # None /\ o[1] # <<>>

\* mutant: the regions are compared without regard to letter case
RegionFilter_IgnoresCase(ts, region) ==
    IF Truthy(region)
    THEN SelectSeq(ts, LAMBDA t :
             [i \in 1..Len(t["Region"]) |-> Lower(t["Region"][i])]
                 = [i \in 1..Len(region[1]) |-> Lower(region[1][i])])
    ELSE ts

\* the region step
RegionFilter(ts, region) ==
    IF Truthy(region) THEN SelectSeq(ts, LAMBDA t : t["Region"] = region[1])
    ELSE ts

\* the min step, then the max step
MinFilter(ts, lo) ==
    IF lo # None THEN SelectSeq(ts, LAMBDA t : FGe(t["Amount"], lo[1]))
    ELSE ts

\* mutant: `if max_amount:', which skips a bound of 0
MaxFilter_SkipsZero(ts, hi) ==
    IF hi # None /\ hi[1] # Num(0)
    THEN SelectSeq(ts, LAMBDA t : FLe(t["Amount"], hi[1]))
    ELSE ts

MaxFilter(ts, hi) ==
    IF hi # None THEN SelectSeq(ts, LAMBDA t : FLe(t["Amount"], hi[1]))
    ELSE ts

\* the loop over the records is left by the TypeError of a rule: nothing is
\* returned and no Amount has been written yet
validate_and_filter_raises(ts) == \E i \in 1..Len(ts) : Rule3Raises(ts[i])

\* mutant: before_count of the amount step is taken before the region step,
\* so a record removed by region is counted by both
validate_and_filter_CountsFromValid(ts, region, lo, hi) ==
    LET input      == [i \in 1..Len(ts) |->
                          IF IsValid(ts[i]) THEN SetAmount(ts[i]) ELSE ts[i]]
        valid      == SelectSeq(input, IsValid)
        by_region  == RegionFilter(valid, region)
        by_amount  == MaxFilter(MinFilter(by_region, lo), hi)
    IN  [valid_transactions |-> by_amount,
         invalid_count      |-> Len(ts) - Len(valid),
         filter_summary     |->
             [total_input        |-> Len(ts),
              invalid            |-> Len(ts) - Len(valid),
              filtered_by_region |-> Len(valid) - Len(by_region),
              filtered_by_amount |-> Len(valid) - Len(by_amount),
              final_count        |-> Len(by_amount)],
         input              |-> input]

\* mutant: the filters work on copies, and Amount is written only into the
\* records that are returned
validate_and_filter_AmountAfterFilters(ts, region, lo, hi) ==
    LET priced     == [i \in 1..Len(ts) |->
                          IF IsValid(ts[i]) THEN SetAmount(ts[i]) ELSE ts[i]]
        valid      == SelectSeq(priced, IsValid)
        by_region  == RegionFilter(valid, region)
        by_amount  == MaxFilter(MinFilter(by_region, lo), hi)
        input      == [i \in 1..Len(ts) |->
                          IF \E k \in 1..Len(by_amount) :
                                 by_amount[k] = priced[i]
                          THEN priced[i] ELSE ts[i]]
    IN  [valid_transactions |-> by_amount,
         invalid_count      |-> Len(ts) - Len(valid),
         filter_summary     |->
             [total_input        |-> Len(ts),
              invalid            |-> Len(ts) - Len(valid),
              filtered_by_region |-> Len(valid) - Len(by_region),
              filtered_by_amount |-> Len(by_region) - Len(by_amount),
              final_count        |-> Len(by_amount)],
         input              |-> input]

\* The call validate_and_filter(ts, region, lo, hi).  `input' is the caller's
\* list after the call: its valid records are the very dicts that receive
\* the Amount key.
validate_and_filter(ts, region, lo, hi) ==
    LET input      == [i \in 1..Len(ts) |->
                          IF IsValid(ts[i]) THEN SetAmount(ts[i]) ELSE ts[i]]
        valid      == SelectSeq(input, IsValid)
        by_region  == RegionFilter(valid, region)
        by_amount  == MaxFilter(MinFilter(by_region, lo), hi)
    IN  [valid_transactions |-> by_amount,
         invalid_count      |-> Len(ts) - Len(valid),
         filter_summary     |->
             [total_input        |-> Len(ts),
              invalid            |-> Len(ts) - Len(valid),
              filtered_by_region |-> Len(valid) - Len(by_region),
              filtered_by_amount |-> Len(by_region) - Len(by_amount),
              final_count        |-> Len(by_amount)],
         input              |-> input]

----------------------------------------------------------------------------
(* calculate_total_revenue.                                                *)

\* quantity * unit_price of one transaction, with the .get defaults
Revenue(trans) ==
    FMul(Get(trans, "Quantity", 0), Get(trans, "UnitPrice", Num(0)))

\* total after the loop over ts, starting from 0.0
RECURSIVE Accumulate(_)
Accumulate(ts) ==
    IF ts = <<>> THEN Num(0)
    ELSE FAdd(Accumulate(SubSeq(ts, 1, Len(ts) - 1)), Revenue(ts[Len(ts)]))

\* mutant: the total is returned as accumulated, without round(total, 2)
calculate_total_revenue_Unrounded(ts) ==
    IF ts = <<>> THEN Num(0) ELSE Accumulate(ts)

calculate_total_revenue(ts) ==
    IF ts = <<>> THEN Num(0) ELSE Round2(Accumulate(ts))

----------------------------------------------------------------------------
(* The grouped aggregations of data_processor.                             *)
(* An ordered dict is the sequence of its items <<key, value>>, in         *)
(* iteration order.                                                        *)

\* the characters of the model, in code point order
Chars ==
    <<"\t", " ", ",", "-", ".",
      "0", "1", "2", "3", "4", "5", "6", "7", "8", "9",
      "A", "B", "C", "D", "E", "F", "G", "H", "I", "J", "K", "L", "M",
      "N", "O", "P", "Q", "R", "S", "T", "U", "V", "W", "X", "Y", "Z",
      "a", "b", "c", "d", "e", "f", "g", "h", "i", "j", "k", "l", "m",
      "n", "o", "p", "q", "r", "s", "t", "u", "v", "w", "x", "y", "z",
      "|">>

Ord(c) == CHOOSE i \in 1..Len(Chars) : Chars[i] = c

\* a < b for two str
RECURSIVE StrLess(_, _)
StrLess(a, b) ==
    IF b = <<>> THEN FALSE
    ELSE IF a = <<>> THEN TRUE
    ELSE IF Head(a) = Head(b) THEN StrLess(Tail(a), Tail(b))
    ELSE Ord(Head(a)) < Ord(Head(b))

\* num / den rounded to the nearest representable number of thousandths
\* (den > 0)
FlQuot(num, den) ==
    LET a     == Abs(num)
        whole == a \div den
        unit  == Pow10(NumDigits(whole) - SigDigits)
        m     == RoundHalfEvenDiv(a, den * unit) * unit
    IN  IF num < 0 THEN 0 - m ELSE m

\* float / int
FDivInt(a, k) == IF a.nan THEN NaN ELSE Num(FlQuot(a.v, k))

\* a / b * 100 for floats with b > 0; the quotient is kept to full
\* precision and the product is rounded once
Percentage(a, b) ==
    IF a.nan \/ b.nan THEN NaN ELSE Num(FlQuot(a.v * 100000, b.v))

\* the orders of 1..n
Orders(n) == {f \in [1..n -> 1..n] : \A i, j \in 1..n : f[i] = f[j] => i = j}

Reordered(ts, f) == [i \in 1..Len(ts) |-> ts[f[i]]]

\* the pairs of positions of a list
Pairs(items) == (1..Len(items)) \X (1..Len(items))

\* sorted(items) where before holds the pairs <<i, j>> of positions whose
\* keys are in the strict order of the sort (< or, with reverse=True, >):
\* stable, so items with equal keys keep their order
SortedBy(items, before) ==
    LET rank(i) ==
            Cardinality({j \in 1..Len(items) :
                            \/ <<j, i>> \in before
                            \/ <<i, j>> \notin before /\ j < i}) + 1
    IN  [p \in 1..Len(items) |->
            items[CHOOSE i \in 1..Len(items) : rank(i) = p]]

\* what sorted(items, reverse=True) can return for float keys: the stable
\* order, or, when a key is NaN and the comparisons are inconsistent, an
\* order that depends on the sorting algorithm of the interpreter
\* keys[i] is the key of items[i]
SortedByFloatDesc(items, keys) ==
    IF \E i \in 1..Len(items) : keys[i].nan
    THEN {Reordered(items, f) : f \in Orders(Len(items))}
    ELSE {SortedBy(items, {p \in Pairs(items) : FGt(keys[p[1]], keys[p[2]])})}

\* the default of trans.get(field, 'Unknown')
Unknown == <<"U", "n", "k", "n", "o", "w", "n">>

\* mutant: a transaction without the field is left out of the grouping
RECURSIVE GroupKeys_SkipsMissing(_, _)
GroupKeys_SkipsMissing(ts, field) ==
    IF ts = <<>> THEN <<>>
    ELSE LET before == GroupKeys_SkipsMissing(SubSeq(ts, 1, Len(ts) - 1),
                                              field)
             last   == ts[Len(ts)]
         IN  IF field \notin DOMAIN last THEN before
             ELSE IF \E i \in 1..Len(before) : before[i] = last[field]
                  THEN before
                  ELSE Append(before, last[field])

\* the keys of a defaultdict filled in list order: first seen first
RECURSIVE GroupKeys(_, _)
GroupKeys(ts, field) ==
    IF ts = <<>> THEN <<>>
    ELSE LET before == GroupKeys(SubSeq(ts, 1, Len(ts) - 1), field)
             key    == Get(ts[Len(ts)], field, Unknown)
         IN  IF \E i \in 1..Len(before) : before[i] = key THEN before
             ELSE Append(before, key)

\* the transactions that were added to the group of key, in list order
Members(ts, field, key) ==
    SelectSeq(ts, LAMBDA t : Get(t, field, Unknown) = key)

\* the running int sum of trans.get('Quantity', 0)
RECURSIVE QuantitySum(_)
QuantitySum(ts) ==
    IF ts = <<>> THEN 0
    ELSE QuantitySum(SubSeq(ts, 1, Len(ts) - 1))
            + Get(ts[Len(ts)], "Quantity", 0)

\* region_data and result before the sort
RegionItems(ts) ==
    LET total   == calculate_total_revenue(ts)
        regions == GroupKeys(ts, "Region")
    IN  [i \in 1..Len(regions) |->
            LET members     == Members(ts, "Region", regions[i])
                total_sales == Accumulate(members)
                percentage  == IF FGt(total, Num(0))
                               THEN Percentage(total_sales, total)
                               ELSE Num(0)
            IN  <<regions[i],
                  [total_sales       |-> Round2(total_sales),
                   transaction_count |-> Len(members),
                   percentage        |-> Round2(percentage)]>>]

\* the dicts region_wise_sales can return
region_wise_sales(ts) ==
    IF ts = <<>> THEN {<<>>}
    ELSE LET items == RegionItems(ts)
         IN  SortedByFloatDesc(items, [i \in 1..Len(items) |->
                                         items[i][2].total_sales])

\* product_data as a list of tuples, before the sort
ProductItems(ts) ==
    LET products == GroupKeys(ts, "ProductName")
    IN  [i \in 1..Len(products) |->
            LET members == Members(ts, "ProductName", products[i])
            IN  <<products[i], QuantitySum(members),
                  Round2(Accumulate(members))>>]

\* list[:n]: a negative n counts from the end of the list
Slice(list, n) ==
    LET stop == IF n >= 0 THEN (IF n < Len(list) THEN n ELSE Len(list))
                ELSE (IF Len(list) + n > 0 THEN Len(list) + n ELSE 0)
    IN  SubSeq(list, 1, stop)

top_selling_products(ts, n) ==
    IF ts = <<>> THEN <<>>
    ELSE LET items == ProductItems(ts)
         IN  Slice(SortedBy(items, {p \in Pairs(items) :
                                       items[p[1]][2] > items[p[2]][2]}), n)

\* mutant: the products with quantity <= threshold
LowPerformers_Inclusive(items, limit) ==
    SelectSeq(items, LAMBDA item : item[2] <= limit)

\* the products with quantity < threshold
LowPerformers(items, limit) ==
    SelectSeq(items, LAMBDA item : item[2] < limit)

low_performing_products(ts, limit) ==
    IF ts = <<>> THEN <<>>
    ELSE LET items == LowPerformers(ProductItems(ts), limit)
         IN  SortedBy(items, {p \in Pairs(items) :
                                 items[p[1]][2] < items[p[2]][2]})

\* the distinct values of field in ts
Distinct(ts, field) ==
    {Get(ts[i], field, Unknown) : i \in 1..Len(ts)}

\* sorted(list(names)) for a set of str
RECURSIVE SortedNames(_)
SortedNames(names) ==
    IF names = {} THEN <<>>
    ELSE LET least == CHOOSE a \in names :
                          \A b \in names \ {a} : StrLess(a, b)
         IN  <<least>> \o SortedNames(names \ {least})

\* customer_data and result before the sort
CustomerItems(ts) ==
    LET customers == GroupKeys(ts, "CustomerID")
    IN  [i \in 1..Len(customers) |->
            LET members     == Members(ts, "CustomerID", customers[i])
                total_spent == Accumulate(members)
            IN  <<customers[i],
                  [total_spent     |-> Round2(total_spent),
                   purchase_count  |-> Len(members),
                   avg_order_value |->
                       Round2(FDivInt(total_spent, Len(members))),
                   products_bought |->
                       SortedNames(Distinct(members, "ProductName"))]>>]

\* the dicts customer_analysis can return
customer_analysis(ts) ==
    IF ts = <<>> THEN {<<>>}
    ELSE LET items == CustomerItems(ts)
         IN  SortedByFloatDesc(items, [i \in 1..Len(items) |->
                                         items[i][2].total_spent])

\* mutant: customers is a list, so unique_customers counts every
\* transaction of the day
DailyItems_CountsVisits(ts) ==
    LET dates == GroupKeys(ts, "Date")
    IN  [i \in 1..Len(dates) |->
            LET members == Members(ts, "Date", dates[i])
            IN  <<dates[i],
                  [revenue           |-> Round2(Accumulate(members)),
                   transaction_count |-> Len(members),
                   unique_customers  |-> Len(members)]>>]

\* daily_data and result before the sort
DailyItems(ts) ==
    LET dates == GroupKeys(ts, "Date")
    IN  [i \in 1..Len(dates) |->
            LET members == Members(ts, "Date", dates[i])
            IN  <<dates[i],
                  [revenue           |-> Round2(Accumulate(members)),
                   transaction_count |-> Len(members),
                   unique_customers  |->
                       Cardinality(Distinct(members, "CustomerID"))]>>]

\* mutant: daily_data is kept between calls, so a second call adds the
\* transactions to the sums of the first
daily_sales_trend_KeepsData(ts) ==
    IF ts = <<>> THEN <<>>
    ELSE LET items == DailyItems(IF daily_trend = None THEN ts ELSE ts \o ts)
         IN  SortedBy(items, {p \in Pairs(items) :
                                 StrLess(items[p[1]][1], items[p[2]][1])})

daily_sales_trend(ts) ==
    IF ts = <<>> THEN <<>>
    ELSE LET items == DailyItems(ts)
         IN  SortedBy(items, {p \in Pairs(items) :
                                 StrLess(items[p[1]][1], items[p[2]][1])})

\* max(items, key=revenue): an item replaces the best so far only when its
\* key is greater (items is not empty)
RECURSIVE MaxByRevenue(_)
MaxByRevenue(items) ==
    IF Len(items) = 1 THEN items[1]
    ELSE LET best == MaxByRevenue(SubSeq(items, 1, Len(items) - 1))
             item == items[Len(items)]
         IN  IF FGt(item[2].revenue, best[2].revenue) THEN item ELSE best

\* mutant: the guards for an empty list are missing and the answer for it
\* is a day with an empty date
find_peak_sales_day_NoGuard(ts) ==
    LET trend == daily_sales_trend(ts)
    IN  IF trend = <<>> THEN <<Some(<<>>), Num(0), 0>>
        ELSE LET peak_date == MaxByRevenue(trend)
             IN  <<Some(peak_date[1]), peak_date[2].revenue,
                   peak_date[2].transaction_count>>

\* (date, revenue, transaction_count): the date is None for no transactions
find_peak_sales_day(ts) ==
    IF ts = <<>> THEN <<None, Num(0), 0>>
    ELSE LET daily_trend_ == daily_sales_trend(ts)
         IN  IF daily_trend_ = <<>> THEN <<None, Num(0), 0>>
             ELSE LET peak_date == MaxByRevenue(daily_trend_)
                  IN  <<Some(peak_date[1]), peak_date[2].revenue,
                        peak_date[2].transaction_count>>

----------------------------------------------------------------------------
(* create_product_mapping and enrich_sales_data.                           *)

\* ids of the products that have one
ProductIds(products) ==
    {products[i]["id"][1] : i \in {j \in 1..Len(products) :
                                       products[j]["id"] # None}}

\* the last product with a given id wins
create_product_mapping(products) ==
    [id \in ProductIds(products) |->
        LET last == CHOOSE i \in 1..Len(products) :
                        /\ products[i]["id"] = Some(id)
                        /\ \A j \in (i + 1)..Len(products) :
                               products[j]["id"] # Some(id)
        IN  [title    |-> products[last]["title"],
             category |-> products[last]["category"],
             brand    |-> products[last]["brand"],
             rating   |-> products[last]["rating"]]]

\* mutant: every digit of s is kept, as in re.sub(r'\D', '', s)
FirstDigitRun_AllDigits(s) ==
    IF \A i \in 1..Len(s) : ~IsDigit(s[i]) THEN None
    ELSE Some(SelectSeq(s, IsDigit))

\* re.search(r'\d+', s): the matched text, or None
FirstDigitRun(s) ==
    IF \A i \in 1..Len(s) : ~IsDigit(s[i]) THEN None
    ELSE LET first == CHOOSE i \in 1..Len(s) :
                          IsDigit(s[i]) /\ \A j \in 1..(i - 1) : ~IsDigit(s[j])
             last  == CHOOSE i \in first..Len(s) :
                          /\ \A j \in first..i : IsDigit(s[j])
                          /\ (i = Len(s) \/ ~IsDigit(s[i + 1]))
         IN  Some(SubSeq(s, first, last))

\* trans.copy() with the four API fields set
WithApi(trans, category, brand, rating, match) ==
    [k \in DOMAIN trans
           \cup {"API_Category", "API_Brand", "API_Rating", "API_Match"} |->
        IF k = "API_Category" THEN category
        ELSE IF k = "API_Brand" THEN brand
        ELSE IF k = "API_Rating" THEN rating
        ELSE IF k = "API_Match" THEN match
        ELSE trans[k]]

\* a value that is not a str stands where a str is expected as a tuple
\* headed by the name of its type: None, or an int followed by its digits
TypeNames == {"NoneType", "int"}

PyNone == <<"NoneType">>

PyInt(digits) == <<"int">> \o digits

IsStr(value) == value = <<>> \/ value[1] \notin TypeNames

\* one pass of the loop body; re.search raises TypeError for a ProductID that
\* is not a str, and the except branch sets the fields of the no-match case
EnrichOne(trans, mapping) ==
    LET product_id_str == Get(trans, "ProductID", <<>>)
        numeric_match  == FirstDigitRun(product_id_str)
        numeric_id     == DigitsValue(numeric_match[1])
    IN  IF ~IsStr(product_id_str)
        THEN WithApi(trans, None, None, None, FALSE)
        ELSE IF numeric_match # None /\ numeric_id \in DOMAIN mapping
        THEN WithApi(trans, mapping[numeric_id]["category"],
                     mapping[numeric_id]["brand"],
                     mapping[numeric_id]["rating"], TRUE)
        ELSE WithApi(trans, None, None, None, FALSE)

\* mutant: the except branch ends the loop, so the records after the first
\* failure are not returned
enrich_sales_data_StopsAtError(ts, mapping) ==
    LET failed == {i \in 1..Len(ts) :
                      ~IsStr(Get(ts[i], "ProductID", <<>>))}
        count  == IF failed = {} THEN Len(ts)
                  ELSE CHOOSE i \in failed : \A j \in failed : i <= j
    IN  [i \in 1..count |-> EnrichOne(ts[i], mapping)]

\* mutant: a transaction without a catalog entry is left out of the result
RECURSIVE enrich_sales_data_DropsUnmatched(_, _)
enrich_sales_data_DropsUnmatched(ts, mapping) ==
    IF ts = <<>> THEN <<>>
    ELSE LET e == EnrichOne(ts[Len(ts)], mapping)
         IN  enrich_sales_data_DropsUnmatched(SubSeq(ts, 1, Len(ts) - 1),
                                              mapping)
                \o (IF e["API_Match"] THEN <<e>> ELSE <<>>)

RECURSIVE enrich_sales_data(_, _)
enrich_sales_data(ts, mapping) ==
    IF ts = <<>> THEN <<>>
    ELSE enrich_sales_data(SubSeq(ts, 1, Len(ts) - 1), mapping)
            \o <<EnrichOne(ts[Len(ts)], mapping)>>

----------------------------------------------------------------------------
(* Inputs.                                                                 *)

\* all lists over pool of length lo..hi
Lists(pool, lo, hi) == UNION {[1..n -> pool] : n \in lo..hi}

RECURSIVE Join(_)
Join(fields) ==
    IF Len(fields) = 1 THEN fields[1]
    ELSE fields[1] \o <<"|">> \o Join(Tail(fields))

\* raw lines as read_sales_data returns them
LinePool ==
    { Join(<< <<"T", "1">>, <<"d", "1">>, <<"P", "5">>, <<"L", "a", "p">>,
              <<"2">>, <<"1", ".", "5">>, <<"C", "1">>, <<"N">> >>),
      Join(<< <<"T", "2", " ">>, <<"d", "2">>, <<" ", "P", "1", "2">>,
              <<"a", ",", ",", "b">>, <<" ", "1", ",", "0">>,
              <<"0", ",", "0", ".", "0", "5">>, <<"C", "2">>,
              <<"\t", "S">> >>),
      Join(<< <<"T", "3">>, <<"d", "1">>, <<"P", "7">>, <<"P", "e", "n", ",">>,
              <<"1">>, <<"n", "a", "n">>, <<"C", "1">>, <<"N">> >>),
      Join(<< <<"T", "4">>, <<"d", "2">>, <<"P", "5">>, <<"L", "a", "p">>,
              <<"4">>, <<"1", ".", "5">>, <<"C", "2">>, <<"n">> >>),
      Join(<< <<"T", "5">>, <<"d", "1">>, <<"P", "5">>, <<"L", "a", "p">>,
              <<"2">>, <<"1", ".", "5">>, <<"C", "1">> >>),
      Join(<< <<"T", "6">>, <<"d", "1">>, <<"P", "5">>, <<"L", "a">>, <<"p">>,
              <<"2">>, <<"1", ".", "5">>, <<"C", "1">>, <<"N">> >>),
      Join(<< <<"T", "7">>, <<"d", "1">>, <<"P", "5">>, <<"L", "a", "p">>,
              <<"2", ".", "5">>, <<"1">>, <<"C", "1">>, <<"N">> >>),
      Join(<< <<"T", "8">>, <<"d", "1">>, <<"P", "5">>, <<"L", "a", "p">>,
              <<"2">>, <<"1", ",", "x">>, <<"C", "1">>, <<"N">> >>),
      Join(<< <<"X", "9">>, <<"d", "1">>, <<"P", "5">>, <<",">>,
              <<"-", "1">>, <<"0">>, <<"C", "1">>, <<>> >>) }

\* the lines of the file that main reads
MainLines == {line \in LinePool : line[2] \in {"1", "2", "3", "5", "9"}}

\* transactions as a caller may hand them to validate_and_filter
Without(t, key) == [k \in DOMAIN t \ {key} |-> t[k]]

GoodN ==
    Transaction(<<"T", "1">>, <<"d", "1">>, <<"P", "5">>, <<"L", "a", "p">>,
                2, Num(1500), <<"C", "1">>, <<"N">>)

GoodS ==
    Transaction(<<"T", "2">>, <<"d", "2">>, <<"P", "1", "2">>,
                <<"a", " ", " ", "b">>, 10, Num(50), <<"C", "2">>, <<"S">>)

GoodLower ==
    Transaction(<<"T", "4">>, <<"d", "2">>, <<"P", "5">>, <<"L", "a", "p">>,
                4, Num(1500), <<"C", "2">>, <<"n">>)

NanPrice ==
    Transaction(<<"T", "3">>, <<"d", "1">>, <<"P", "7">>,
                <<"P", "e", "n", " ">>, 1, NaN, <<"C", "1">>, <<"N">>)

ManyFaults ==
    Transaction(<<"X", "9">>, <<"d", "1">>, <<"P", "5">>, <<" ">>,
                0 - 1, Num(0), <<"C", "1">>, <<>>)

BlankName ==
    Transaction(<<"T", "5">>, <<"d", "1">>, <<"P", "5">>, <<" ">>,
                2, Num(1500), <<"C", "1">>, <<"N">>)

TransPool ==
    { GoodN, GoodS, GoodLower, NanPrice, ManyFaults, BlankName,
      Without(GoodN, "Region"), Without(GoodS, "Quantity") }

RegionArgs == {None, Some(<<>>), Some(<<"N">>), Some(<<"S">>)}

AmountArgs == {None, Some(Num(0)), Some(Num(3000))}

\* what the user may type at the three prompts of apply_filters
RegionInputs == {<<>>, <<"N">>, <<" ", "S">>, <<"Q">>}

AmountInputs == {<<>>, <<"0">>, <<"3">>, <<"x">>, <<"n", "a", "n">>}

\* catalog entries as fetch_all_products returns them
Product(id, category, brand, rating) ==
    [id |-> id, title |-> Some(<<"t">>), category |-> category,
     brand |-> brand, price |-> Some(Num(1000)), rating |-> rating]

ProductPool ==
    { Product(Some(5), Some(<<"l">>), Some(<<"A">>), Some(Num(4700))),
      Product(Some(12), Some(<<"s">>), None, Some(Num(4400))),
      Product(None, Some(<<"x">>), Some(<<"B">>), None) }

\* what fetch_all_products may return to main: [] after a failed request,
\* or the catalog
FetchResults ==
    { <<>>,
      <<Product(Some(5), Some(<<"l">>), Some(<<"A">>), Some(Num(4700)))>>,
      <<Product(Some(12), Some(<<"s">>), None, Some(Num(4400))),
        Product(None, Some(<<"x">>), Some(<<"B">>), None)>> }

----------------------------------------------------------------------------
(* main: one action per step.                                              *)

\* Step 2: parse_transactions, and the return when nothing was parsed
ParseStep ==
    /\ pc = "parse"
    /\ LET r == parse_transactions(raw_lines)
       IN  /\ transactions' = r.transactions
           /\ skipped_count' = r.skipped_count
           /\ pc' = IF r.transactions = <<>> THEN "stopped" ELSE "filters"
    /\ UNCHANGED <<analysis_vars, raw_lines, filter_region, typed_bounds,
                   min_amount, max_amount, valid_trans, invalid_count,
                   filter_summary, total_revenue, api_products,
                   product_mapping, enriched_trans>>

\* regions listed by apply_filters
AvailableRegions(ts) ==
    {ts[i]["Region"] : i \in {j \in 1..Len(ts) : ts[j]["Region"] # <<>>}}

\* Step 3: apply_filters
FilterStep ==
    /\ pc = "filters"
    /\ \/ /\ filter_region' = None
          /\ min_amount' = None
          /\ max_amount' = None
          /\ UNCHANGED typed_bounds
       \/ \E region_in \in RegionInputs, min_in, max_in \in AmountInputs :
             LET typed == Strip(region_in)
             IN  /\ filter_region' =
                        IF /\ typed # <<>>
                           /\ typed \notin AvailableRegions(transactions)
                        THEN None ELSE Some(typed)
                 /\ filter_min' = Strip(min_in)
                 /\ filter_max' = Strip(max_in)
                 /\ min_amount' = IF filter_min' = <<>> THEN None
                                  ELSE ParseFloat(filter_min')
                 /\ max_amount' = IF filter_max' = <<>> THEN None
                                  ELSE ParseFloat(filter_max')
    /\ pc' = "validate"
    /\ UNCHANGED <<analysis_vars,
                   raw_lines, transactions, skipped_count, valid_trans,
                   invalid_count, filter_summary, total_revenue, api_products,
                   product_mapping, enriched_trans>>

\* mutant: main goes on to the analyses whatever validate_and_filter
\* returned
ValidateStep_NeverStops ==
    /\ pc = "validate"
    /\ LET r == validate_and_filter(transactions, filter_region,
                                    min_amount, max_amount)
       IN  /\ valid_trans' = r.valid_transactions
           /\ invalid_count' = r.invalid_count
           /\ filter_summary' = Some(r.filter_summary)
           /\ transactions' = r.input
           /\ pc' = "analyze"
    /\ UNCHANGED <<analysis_vars, raw_lines, skipped_count, filter_region,
                   typed_bounds, min_amount, max_amount, total_revenue,
                   api_products, product_mapping, enriched_trans>>

\* Step 4: validate_and_filter, and the return when nothing is left; when
\* the call raises, main reports the error and returns
ValidateStep ==
    /\ pc = "validate"
    /\ IF validate_and_filter_raises(transactions)
       THEN /\ pc' = "raised"
            /\ UNCHANGED <<transactions, valid_trans, invalid_count,
                           filter_summary>>
       ELSE LET r == validate_and_filter(transactions, filter_region,
                                         min_amount, max_amount)
            IN  /\ valid_trans' = r.valid_transactions
                /\ invalid_count' = r.invalid_count
                /\ filter_summary' = Some(r.filter_summary)
                /\ transactions' = r.input
                /\ pc' = IF r.valid_transactions = <<>> THEN "stopped"
                         ELSE "analyze"
    /\ UNCHANGED <<analysis_vars, raw_lines, skipped_count, filter_region,
                   typed_bounds, min_amount, max_amount, total_revenue,
                   api_products, product_mapping, enriched_trans>>

\* mutant: the analyses are made on the parsed list, before validation
AnalyzeStep_OnParsed ==
    /\ pc = "analyze"
    /\ total_revenue' = Some(calculate_total_revenue(transactions))
    /\ region_stats' \in {Some(r) : r \in region_wise_sales(transactions)}
    /\ top_products' = Some(top_selling_products(transactions, TopN))
    /\ customer_stats' \in {Some(r) : r \in customer_analysis(transactions)}
    /\ daily_trend' = Some(daily_sales_trend(transactions))
    /\ peak_day' = Some(find_peak_sales_day(transactions))
    /\ low_products' =
           Some(low_performing_products(transactions, LowThreshold))
    /\ pc' = "fetch"
    /\ UNCHANGED <<raw_lines, transactions, skipped_count, filter_region,
                   typed_bounds, min_amount, max_amount, valid_trans,
                   invalid_count, filter_summary, api_products,
                   product_mapping, enriched_trans, top_n, threshold, report>>

\* Step 5: the analyses, none of which raises on admitted transactions
AnalyzeStep ==
    /\ pc = "analyze"
    /\ total_revenue' = Some(calculate_total_revenue(valid_trans))
    /\ region_stats' \in {Some(r) : r \in region_wise_sales(valid_trans)}
    /\ top_products' = Some(top_selling_products(valid_trans, TopN))
    /\ customer_stats' \in {Some(r) : r \in customer_analysis(valid_trans)}
    /\ daily_trend' = Some(daily_sales_trend(valid_trans))
    /\ peak_day' = Some(find_peak_sales_day(valid_trans))
    /\ low_products' =
           Some(low_performing_products(valid_trans, LowThreshold))
    /\ pc' = "fetch"
    /\ UNCHANGED <<raw_lines, transactions, skipped_count, filter_region,
                   typed_bounds, min_amount, max_amount, valid_trans,
                   invalid_count, filter_summary, api_products,
                   product_mapping, enriched_trans, top_n, threshold, report>>

\* Step 6: fetch_all_products; a failed fetch leaves the empty list
FetchStep ==
    /\ pc = "fetch"
    /\ api_products' \in FetchResults
    /\ pc' = "enrich"
    /\ UNCHANGED <<analysis_vars, raw_lines, transactions, skipped_count,
                   filter_region, typed_bounds, min_amount, max_amount,
                   valid_trans, invalid_count, filter_summary, total_revenue,
                   product_mapping, enriched_trans>>

\* Step 7: enrichment, skipped when there are no products
EnrichStep ==
    /\ pc = "enrich"
    /\ IF api_products # <<>>
       THEN /\ product_mapping' = create_product_mapping(api_products)
            /\ enriched_trans' = enrich_sales_data(valid_trans,
                                                   product_mapping')
       ELSE /\ enriched_trans' = valid_trans
            /\ UNCHANGED product_mapping
    /\ pc' = "save"
    /\ UNCHANGED <<analysis_vars, raw_lines, transactions, skipped_count,
                   filter_region, typed_bounds, min_amount, max_amount,
                   valid_trans, invalid_count, filter_summary, total_revenue,
                   api_products>>

\* Step 8: save_enriched_data writes a file and changes nothing in memory
SaveStep ==
    /\ pc = "save"
    /\ pc' = "report"
    /\ UNCHANGED <<analysis_vars, raw_lines, transactions, skipped_count,
                   filter_region, typed_bounds, min_amount, max_amount,
                   valid_trans, invalid_count, filter_summary, total_revenue,
                   api_products, product_mapping, enriched_trans>>

\* t.get('API_Match') is true
ApiMatch(t) == IF "API_Match" \in DOMAIN t THEN t["API_Match"] ELSE FALSE

\* the metrics generate_sales_report can compute before it writes them:
\* the analyses of transactions, and the enrichment statistics of
\* enriched_transactions
generate_sales_report(ts, enriched) ==
    LET dates == {ts[i]["Date"] :
                     i \in {j \in 1..Len(ts) : Get(ts[j], "Date", <<>>) # <<>>}}
    IN  { [total_revenue       |-> calculate_total_revenue(ts),
           region_stats        |-> regions,
           top_products        |-> top_selling_products(ts, TopN),
           customer_stats      |-> customers,
           daily_trend         |-> daily_sales_trend(ts),
           peak_day            |-> find_peak_sales_day(ts),
           low_products        |-> low_performing_products(ts, LowThreshold),
           date_range_start    |-> IF dates = {} THEN None
                                   ELSE Some(Head(SortedNames(dates))),
           date_range_end      |-> IF dates = {} THEN None
                                   ELSE Some(SortedNames(dates)[
                                                Cardinality(dates)]),
           enriched_count      |-> Len(SelectSeq(enriched, ApiMatch)),
           total_enriched      |-> Len(enriched),
           unenriched_products |->
               {enriched[i]["ProductName"] :
                   i \in {j \in 1..Len(enriched) : ~ApiMatch(enriched[j])}}]
          : regions \in region_wise_sales(ts),
            customers \in customer_analysis(ts) }

\* Step 9: generate_sales_report(valid_trans, enriched_trans) recomputes the
\* analyses and writes a file
ReportStep ==
    /\ pc = "report"
    /\ report' \in {Some(r) :
                       r \in generate_sales_report(valid_trans,
                                                   enriched_trans)}
    /\ pc' = "done"
    /\ UNCHANGED <<raw_lines, transactions, skipped_count, filter_region,
                   typed_bounds, min_amount, max_amount, valid_trans,
                   invalid_count, filter_summary, total_revenue, api_products,
                   product_mapping, enriched_trans, region_stats, top_products,
                   customer_stats, daily_trend, peak_day, low_products, top_n,
                   threshold>>

\* no analysis has been made and no report written
NotAnalyzed ==
    /\ region_stats = None
    /\ top_products = None
    /\ customer_stats = None
    /\ daily_trend = None
    /\ peak_day = None
    /\ low_products = None
    /\ report = None

\* the arguments main passes
MainArguments == top_n = TopN /\ threshold = LowThreshold

\* everything main has not computed yet
Unset ==
    /\ NotAnalyzed
    /\ MainArguments
    /\ transactions = <<>>
    /\ skipped_count = 0
    /\ filter_region = None
    /\ filter_min = <<>>
    /\ filter_max = <<>>
    /\ min_amount = None
    /\ max_amount = None
    /\ valid_trans = <<>>
    /\ invalid_count = 0
    /\ filter_summary = None
    /\ total_revenue = None
    /\ api_products = <<>>
    /\ product_mapping = <<>>
    /\ enriched_trans = <<>>

Init ==
    /\ pc = "parse"
    /\ raw_lines \in Lists(MainLines, 1, MaxLines)
    /\ Unset

Next ==
    \/ ParseStep
    \/ FilterStep
    \/ ValidateStep
    \/ AnalyzeStep
    \/ FetchStep
    \/ EnrichStep
    \/ SaveStep
    \/ ReportStep

Spec == Init /\ [][Next]_vars

----------------------------------------------------------------------------
(* The functions called on their own.                                      *)

\* parse_transactions(raw_lines) on any list of lines
InitParse ==
    /\ pc = "parse"
    /\ raw_lines \in Lists(LinePool, 0, MaxLines)
    /\ Unset

SpecParse == InitParse /\ [][ParseStep]_vars

\* validate_and_filter(transactions, region, min_amount, max_amount)
InitValidate ==
    /\ NotAnalyzed
    /\ MainArguments
    /\ pc = "validate"
    /\ raw_lines = <<>>
    /\ transactions \in Lists(TransPool, 0, MaxTrans)
    /\ skipped_count = 0
    /\ filter_region \in RegionArgs
    /\ filter_min = <<>>
    /\ filter_max = <<>>
    /\ min_amount \in AmountArgs
    /\ max_amount \in AmountArgs
    /\ valid_trans = <<>>
    /\ invalid_count = 0
    /\ filter_summary = None
    /\ total_revenue = None
    /\ api_products = <<>>
    /\ product_mapping = <<>>
    /\ enriched_trans = <<>>

SpecValidate == InitValidate /\ [][ValidateStep]_vars

\* records as any caller may hand them over: fields missing, and a
\* UnitPrice that is None or a str
ValidateAnyPool ==
    { GoodN, GoodS, ManyFaults,
      Without(GoodN, "UnitPrice"),
      Without(GoodS, "Quantity"),
      [GoodN EXCEPT !["UnitPrice"] = NoPrice],
      [GoodS EXCEPT !["UnitPrice"] = TextPrice(<<"x">>)] }

InitValidateAny ==
    /\ NotAnalyzed
    /\ MainArguments
    /\ pc = "validate"
    /\ raw_lines = <<>>
    /\ transactions \in Lists(ValidateAnyPool, 0, MaxTrans)
    /\ skipped_count = 0
    /\ filter_region = None
    /\ filter_min = <<>>
    /\ filter_max = <<>>
    /\ min_amount = None
    /\ max_amount = None
    /\ valid_trans = <<>>
    /\ invalid_count = 0
    /\ filter_summary = None
    /\ total_revenue = None
    /\ api_products = <<>>
    /\ product_mapping = <<>>
    /\ enriched_trans = <<>>

SpecValidateAny == InitValidateAny /\ [][ValidateStep]_vars

\* transactions as a caller may hand them to enrich_sales_data
WithProductID(t, pid) == [t EXCEPT !["ProductID"] = pid]

EnrichPool ==
    { GoodN, GoodS,
      WithProductID(GoodN, <<"P", "0", "5", "X", "1", "2">>),
      WithProductID(GoodS, <<"P", "7">>),
      WithProductID(GoodS, <<"P", "X">>),
      Without(GoodN, "ProductID") }

\* create_product_mapping(api_products)
CreateMappingCall ==
    /\ pc = "call_mapping"
    /\ product_mapping' = create_product_mapping(api_products)
    /\ pc' = "call_enrich"
    /\ UNCHANGED <<analysis_vars, raw_lines, transactions, skipped_count,
                   filter_region, typed_bounds, min_amount, max_amount,
                   valid_trans, invalid_count, filter_summary, total_revenue,
                   api_products, enriched_trans>>

\* mutant: the API fields are written into the caller's dicts, without
\* trans.copy()
EnrichCall_InPlace ==
    /\ pc = "call_enrich"
    /\ enriched_trans' = enrich_sales_data(valid_trans, product_mapping)
    /\ valid_trans' = enriched_trans'
    /\ pc' = "returned"
    /\ UNCHANGED <<analysis_vars, raw_lines, transactions, skipped_count,
                   filter_region, typed_bounds, min_amount, max_amount,
                   invalid_count, filter_summary, total_revenue,
                   api_products, product_mapping>>

\* enrich_sales_data(valid_trans, product_mapping)
EnrichCall ==
    /\ pc = "call_enrich"
    /\ enriched_trans' = enrich_sales_data(valid_trans, product_mapping)
    /\ pc' = "returned"
    /\ UNCHANGED <<analysis_vars, raw_lines, transactions, skipped_count,
                   filter_region, typed_bounds, min_amount, max_amount,
                   valid_trans, invalid_count, filter_summary, total_revenue,
                   api_products, product_mapping>>

InitEnrich ==
    /\ NotAnalyzed
    /\ MainArguments
    /\ pc = "call_mapping"
    /\ raw_lines = <<>>
    /\ transactions = <<>>
    /\ skipped_count = 0
    /\ filter_region = None
    /\ filter_min = <<>>
    /\ filter_max = <<>>
    /\ min_amount = None
    /\ max_amount = None
    /\ valid_trans \in Lists(EnrichPool, 0, MaxTrans)
    /\ invalid_count = 0
    /\ filter_summary = None
    /\ total_revenue = None
    /\ api_products \in Lists(ProductPool, 0, MaxProducts)
    /\ product_mapping = <<>>
    /\ enriched_trans = <<>>

NextEnrich == CreateMappingCall \/ EnrichCall

SpecEnrich == InitEnrich /\ [][NextEnrich]_vars

\* transactions whose ProductID is absent, None, an int or a str
EnrichAnyPool ==
    { GoodN,
      WithProductID(GoodN, PyNone),
      WithProductID(GoodS, PyInt(<<"5">>)),
      WithProductID(GoodS, <<"P", "X">>),
      Without(GoodN, "ProductID") }

InitEnrichAny ==
    /\ NotAnalyzed
    /\ MainArguments
    /\ pc = "call_mapping"
    /\ raw_lines = <<>>
    /\ transactions = <<>>
    /\ skipped_count = 0
    /\ filter_region = None
    /\ filter_min = <<>>
    /\ filter_max = <<>>
    /\ min_amount = None
    /\ max_amount = None
    /\ valid_trans \in Lists(EnrichAnyPool, 0, MaxTrans)
    /\ invalid_count = 0
    /\ filter_summary = None
    /\ total_revenue = None
    /\ api_products \in Lists(ProductPool, 0, MaxProducts)
    /\ product_mapping = <<>>
    /\ enriched_trans = <<>>

SpecEnrichAny == InitEnrichAny /\ [][NextEnrich]_vars

\* transactions as a caller may hand them to the aggregation functions
Priced(t, qty, price) ==
    [t EXCEPT !["Quantity"] = qty, !["UnitPrice"] = price]

AggPool ==
    { Priced(GoodN, 1, Num(1000)),
      Priced(GoodS, 1, Num(4)),
      Priced(GoodS, 1, Num(2)),
      Priced(GoodLower, 2, Num(1500)),
      NanPrice,
      Without(GoodS, "Quantity") }

\* where a call returns to: the caller of a series makes its next call
AfterCall == IF pc = "call_series" THEN "call_series" ELSE "returned"

\* what no aggregation function assigns to
call_frame == <<raw_lines, transactions, skipped_count, filter_region,
                typed_bounds, min_amount, max_amount, valid_trans,
                invalid_count, filter_summary, api_products, product_mapping,
                enriched_trans, top_n, threshold, report>>

\* calculate_total_revenue(valid_trans)
RevenueCall ==
    /\ pc \in {"call_revenue", "call_series"}
    /\ total_revenue' = Some(calculate_total_revenue(valid_trans))
    /\ pc' = AfterCall
    /\ UNCHANGED <<call_frame, region_stats, top_products, customer_stats,
                   daily_trend, peak_day, low_products>>

InitRevenue ==
    /\ NotAnalyzed
    /\ MainArguments
    /\ pc = "call_revenue"
    /\ raw_lines = <<>>
    /\ transactions = <<>>
    /\ skipped_count = 0
    /\ filter_region = None
    /\ filter_min = <<>>
    /\ filter_max = <<>>
    /\ min_amount = None
    /\ max_amount = None
    /\ valid_trans \in Lists(AggPool, 0, MaxAgg)
    /\ invalid_count = 0
    /\ filter_summary = None
    /\ total_revenue = None
    /\ api_products = <<>>
    /\ product_mapping = <<>>
    /\ enriched_trans = <<>>

SpecRevenue == InitRevenue /\ [][RevenueCall]_vars

\* transactions as a caller may hand them to the grouped aggregations
SalesPool ==
    { Priced(GoodN, 1, Num(1000)),
      Priced(GoodS, 1, Num(1000)),
      Priced(GoodS, 1, Num(4)),
      Priced(GoodLower, 2, Num(1500)),
      NanPrice,
      Without(Priced(GoodN, 1, Num(2)), "Region") }

\* values of n and of threshold a caller may pass
NArgs == {0 - 1, 0, 1, TopN}

ThresholdArgs == {0, 2, LowThreshold}

\* region_wise_sales(valid_trans)
RegionCall ==
    /\ pc \in {"call_region", "call_series"}
    /\ region_stats' \in {Some(r) : r \in region_wise_sales(valid_trans)}
    /\ pc' = AfterCall
    /\ UNCHANGED <<call_frame, total_revenue, top_products, customer_stats,
                   daily_trend, peak_day, low_products>>

\* top_selling_products(valid_trans, top_n)
TopCall ==
    /\ pc \in {"call_top", "call_series"}
    /\ top_products' = Some(top_selling_products(valid_trans, top_n))
    /\ pc' = AfterCall
    /\ UNCHANGED <<call_frame, total_revenue, region_stats, customer_stats,
                   daily_trend, peak_day, low_products>>

\* customer_analysis(valid_trans)
CustomerCall ==
    /\ pc \in {"call_customer", "call_series"}
    /\ customer_stats' \in {Some(r) : r \in customer_analysis(valid_trans)}
    /\ pc' = AfterCall
    /\ UNCHANGED <<call_frame, total_revenue, region_stats, top_products,
                   daily_trend, peak_day, low_products>>

\* daily_sales_trend(valid_trans)
DailyCall ==
    /\ pc \in {"call_daily", "call_series"}
    /\ daily_trend' = Some(daily_sales_trend(valid_trans))
    /\ pc' = AfterCall
    /\ UNCHANGED <<call_frame, total_revenue, region_stats, top_products,
                   customer_stats, peak_day, low_products>>

\* find_peak_sales_day(valid_trans)
PeakCall ==
    /\ pc \in {"call_peak", "call_series"}
    /\ peak_day' = Some(find_peak_sales_day(valid_trans))
    /\ pc' = AfterCall
    /\ UNCHANGED <<call_frame, total_revenue, region_stats, top_products,
                   customer_stats, daily_trend, low_products>>

\* low_performing_products(valid_trans, threshold)
LowCall ==
    /\ pc \in {"call_low", "call_series"}
    /\ low_products' = Some(low_performing_products(valid_trans, threshold))
    /\ pc' = AfterCall
    /\ UNCHANGED <<call_frame, total_revenue, region_stats, top_products,
                   customer_stats, daily_trend, peak_day>>

\* the state in which a caller holding the list ts makes the call entry
InitAggregate(entry, ts) ==
    /\ pc = entry
    /\ raw_lines = <<>>
    /\ transactions = <<>>
    /\ skipped_count = 0
    /\ filter_region = None
    /\ filter_min = <<>>
    /\ filter_max = <<>>
    /\ min_amount = None
    /\ max_amount = None
    /\ valid_trans = ts
    /\ invalid_count = 0
    /\ filter_summary = None
    /\ total_revenue = None
    /\ api_products = <<>>
    /\ product_mapping = <<>>
    /\ enriched_trans = <<>>
    /\ NotAnalyzed

InitRegion ==
    /\ \E ts \in Lists(SalesPool, 0, MaxAgg) :
           InitAggregate("call_region", ts)
    /\ MainArguments

SpecRegion == InitRegion /\ [][RegionCall]_vars

InitProducts ==
    /\ \E entry \in {"call_top", "call_low"},
          ts \in Lists(SalesPool, 0, MaxAgg) : InitAggregate(entry, ts)
    /\ top_n \in NArgs
    /\ threshold \in ThresholdArgs

NextProducts == TopCall \/ LowCall

SpecProducts == InitProducts /\ [][NextProducts]_vars

InitPeak ==
    /\ \E entry \in {"call_daily", "call_peak"},
          ts \in Lists(SalesPool, 0, MaxAgg) : InitAggregate(entry, ts)
    /\ MainArguments

NextPeak == DailyCall \/ PeakCall

SpecPeak == InitPeak /\ [][NextPeak]_vars

InitCustomer ==
    /\ \E ts \in Lists(SalesPool, 0, MaxAgg) :
           InitAggregate("call_customer", ts)
    /\ MainArguments

SpecCustomer == InitCustomer /\ [][CustomerCall]_vars

\* admitted transactions whose amounts differ by less than a cent
CentPool ==
    { Priced(GoodN, 1, Num(2)),
      Priced(GoodS, 1, Num(4)),
      Priced(GoodS, 1, Num(1000)),
      Priced(GoodLower, 1, Num(10)),
      Priced(GoodN, 2, Num(5)) }

InitPrecision ==
    /\ \E entry \in {"call_region", "call_customer", "call_peak"},
          ts \in Lists(CentPool, 0, MaxAgg) : InitAggregate(entry, ts)
    /\ MainArguments

NextPrecision == RegionCall \/ CustomerCall \/ PeakCall

SpecPrecision == InitPrecision /\ [][NextPrecision]_vars

\* a caller makes any of the seven calls, in any order and any number of
\* times, on the list it holds
InitSeries ==
    /\ \E ts \in Lists(SalesPool, 0, MaxSeries) :
           InitAggregate("call_series", ts)
    /\ MainArguments

NextSeries ==
    \/ RevenueCall
    \/ RegionCall
    \/ TopCall
    \/ CustomerCall
    \/ DailyCall
    \/ PeakCall
    \/ LowCall

SpecSeries == InitSeries /\ [][NextSeries]_vars

----------------------------------------------------------------------------
(* The six validation rules as the specification words them.               *)

StringFields == {"TransactionID", "Date", "ProductID", "ProductName",
                 "CustomerID", "Region"}

AllFields == StringFields \cup {"Quantity", "UnitPrice"}

\* present and, after string coercion, non-empty
PresentNonEmpty(t, field) ==
    field \in DOMAIN t /\ Str(field, t[field]) # <<>>

SixRulesPass(t) ==
    /\ \A field \in AllFields : PresentNonEmpty(t, field)
    /\ t["Quantity"] > 0
    /\ FGt(t["UnitPrice"], Num(0))
    /\ Head(t["TransactionID"]) = "T"
    /\ Head(t["ProductID"]) = "P"
    /\ Head(t["CustomerID"]) = "C"

\* number of elements of a list that satisfy Test
Count(ts, Test(_)) == Cardinality({i \in 1..Len(ts) : Test(ts[i])})

Validated == filter_summary # None

NoFilters == filter_region = None /\ min_amount = None /\ max_amount = None

FailsARule(t) == ~SixRulesPass(t)

\* C1 (as claimed): called with no filters, validate_and_filter admits a
\* record if and only if all six rules pass (every required field present
\* and non-empty after string coercion, Quantity > 0, UnitPrice > 0, the
\* three prefixes), and invalid_count is the number of input records that
\* fail at least one rule.
C1_AdmitsIffSixRules ==
    (Validated /\ NoFilters) =>
        /\ valid_trans = SelectSeq(transactions, SixRulesPass)
        /\ invalid_count = Count(transactions, FailsARule)

\* C2 (as claimed): in every state of main after the validation stage,
\* every transaction of the working set satisfies all six rules, and its
\* Amount equals Quantity * UnitPrice and is non-negative.
C2_AdmittedSatisfyRules ==
    Validated =>
        \A i \in 1..Len(valid_trans) :
            LET t == valid_trans[i]
            IN  /\ SixRulesPass(t)
                /\ "Amount" \in DOMAIN t
                /\ t["Amount"] = FMul(t["Quantity"], t["UnitPrice"])
                /\ FGe(t["Amount"], Num(0))

----------------------------------------------------------------------------
(* Enrichment.                                                             *)

ApiFields == {"API_Category", "API_Brand", "API_Rating", "API_Match"}

Returned == pc = "returned"

\* the digit runs of s that no digit precedes or follows: <<first, last>>
MaximalRuns(s) ==
    {r \in (1..Len(s)) \X (1..Len(s)) :
        /\ r[1] <= r[2]
        /\ \A k \in r[1]..r[2] : IsDigit(s[k])
        /\ (r[1] = 1 \/ ~IsDigit(s[r[1] - 1]))
        /\ (r[2] = Len(s) \/ ~IsDigit(s[r[2] + 1]))}

\* the integer written by the digits s[first..last]
RECURSIVE RunValue(_, _, _)
RunValue(s, first, last) ==
    IF first > last THEN 0
    ELSE DigitVal(s[first]) * Pow10(last - first) + RunValue(s, first + 1, last)

\* the catalog keys that the first maximal digit run of pid names: one or none
KeyOf(pid, mapping) ==
    {id \in DOMAIN mapping :
        \E r \in MaximalRuns(pid) :
            /\ \A q \in MaximalRuns(pid) : r[1] <= q[1]
            /\ id = RunValue(pid, r[1], r[2])}

\* C3: enrich_sales_data returns a list of the same length whose i-th
\* element is the enrichment of the i-th input transaction (its fields are
\* the input's, unchanged, plus the API fields), for every mapping, the
\* empty one included; every output record carries a boolean API_Match.
C3_EnrichOneToOne ==
    Returned =>
        /\ Len(enriched_trans) = Len(valid_trans)
        /\ \A i \in 1..Len(valid_trans) :
              /\ DOMAIN enriched_trans[i] = DOMAIN valid_trans[i] \cup ApiFields
              /\ \A k \in DOMAIN valid_trans[i] :
                     enriched_trans[i][k] = valid_trans[i][k]
              /\ enriched_trans[i]["API_Match"] \in BOOLEAN

\* C3 witness: two transactions were enriched against the empty mapping
C3_Witness ==
    /\ Returned
    /\ Len(valid_trans) = 2
    /\ valid_trans[1] # valid_trans[2]
    /\ DOMAIN product_mapping = {}
    /\ Len(enriched_trans) = 2

----------------------------------------------------------------------------
(* Filtering.                                                              *)

\* the records that passed validation, in input order
Admitted == SelectSeq(transactions, IsValid)

RegionSupplied == filter_region # None /\ filter_region[1] # <<>>

InRegion(t) == t["Region"] = filter_region[1]

OutOfRegion(t) == ~InRegion(t)

\* the admitted records that the region step keeps
RegionKept == IF RegionSupplied THEN SelectSeq(Admitted, InRegion) ELSE Admitted

\* min_amount <= Quantity * UnitPrice <= max_amount, for the bounds supplied
InRange(t) ==
    LET amount == FMul(t["Quantity"], t["UnitPrice"])
    IN  /\ min_amount # None => FGe(amount, min_amount[1])
        /\ max_amount # None => FLe(amount, max_amount[1])

OutOfRange(t) == ~InRange(t)

\* C5: with a non-empty region supplied, exactly the admitted records whose
\* Region equals it (case-sensitively) are kept, and filtered_by_region is
\* the number of admitted records removed by that step; with region None or
\* empty nothing is removed by region and filtered_by_region is 0.
C5_RegionFilterExact ==
    Validated =>
        /\ RegionSupplied =>
              /\ filter_summary[1].filtered_by_region
                    = Count(Admitted, OutOfRegion)
              /\ \A i \in 1..Len(valid_trans) : InRegion(valid_trans[i])
        /\ ~RegionSupplied =>
              filter_summary[1].filtered_by_region = 0
        /\ (min_amount = None /\ max_amount = None) =>
              valid_trans = RegionKept

\* C5 witness: region 'N' removed an admitted record of region 'n' and kept
\* one of region 'N', while a rejected record went uncounted by the filter
C5_Witness ==
    /\ Validated
    /\ filter_region = Some(<<"N">>)
    /\ invalid_count = 1
    /\ filter_summary[1].filtered_by_region = 1
    /\ \E i \in 1..Len(transactions) :
          IsValid(transactions[i]) /\ transactions[i]["Region"] = <<"n">>
    /\ Len(valid_trans) = 1

\* C6: the amount step works on what the region step kept and keeps exactly
\* the records with min_amount <= Amount <= max_amount, each bound inclusive
\* and applied whenever it is supplied, a bound of 0 included;
\* filtered_by_amount is the number of records the min and max steps remove
\* from the region-filtered list.
C6_AmountFilterExact ==
    Validated =>
        /\ valid_trans = SelectSeq(RegionKept, InRange)
        /\ filter_summary[1].filtered_by_amount = Count(RegionKept, OutOfRange)
        /\ filter_summary[1].filtered_by_amount
              = Len(RegionKept) - Len(valid_trans)

\* C6 witness: bounds 0 and 3.0 after a region filter; a record with Amount
\* 3.0 is kept, one is removed by region and one by amount
C6_Witness ==
    /\ Validated
    /\ RegionSupplied
    /\ min_amount = Some(Num(0))
    /\ max_amount = Some(Num(3000))
    /\ filter_summary[1].filtered_by_region = 1
    /\ filter_summary[1].filtered_by_amount = 1
    /\ Len(valid_trans) = 1
    /\ valid_trans[1]["Amount"] = Num(3000)

\* C7: validate_and_filter run on its own output with the same parameters
\* returns the identical list, with invalid = 0, filtered_by_region = 0 and
\* filtered_by_amount = 0.
C7_Idempotent ==
    Validated =>
        LET again == validate_and_filter(valid_trans, filter_region,
                                         min_amount, max_amount)
        IN  /\ again.valid_transactions = valid_trans
            /\ again.invalid_count = 0
            /\ again.filter_summary.invalid = 0
            /\ again.filter_summary.filtered_by_region = 0
            /\ again.filter_summary.filtered_by_amount = 0
            /\ again.filter_summary.total_input = Len(valid_trans)
            /\ again.filter_summary.final_count = Len(valid_trans)

\* C7 witness: the first run rejected a record, removed one by region and
\* returned one
C7_Witness ==
    /\ Validated
    /\ invalid_count = 1
    /\ filter_summary[1].filtered_by_region = 1
    /\ min_amount # None
    /\ max_amount # None
    /\ Len(valid_trans) = 1

----------------------------------------------------------------------------
(* Parsing.                                                                *)

\* parse_transactions has returned
Parsed == pc \in {"filters", "stopped"} /\ ~Validated

PipeCount(line) == Cardinality({i \in 1..Len(line) : line[i] = "|"})

\* position of the k-th '|' of line; 0 for k = 0, Len + 1 past the last one
PipeAt(line, k) ==
    IF k = 0 THEN 0
    ELSE IF k > PipeCount(line) THEN Len(line) + 1
    ELSE CHOOSE i \in 1..Len(line) :
             /\ line[i] = "|"
             /\ Cardinality({j \in 1..i : line[j] = "|"}) = k

\* the text between the (k-1)-th and the k-th '|'
FieldText(line, k) ==
    SubSeq(line, PipeAt(line, k - 1) + 1, PipeAt(line, k) - 1)

NotComma(c) == c # ","

\* a numeric text with its commas and surrounding whitespace taken away,
\* and without its sign
Numeral(text) == Unsigned(Strip(SelectSeq(Strip(text), NotComma)))

\* an integer numeral: digits only, at least one
IntegerText(text) ==
    LET d == Numeral(text)
    IN  d # <<>> /\ \A i \in 1..Len(d) : IsDigit(d[i])

NanText(text) ==
    LET d == Numeral(text)
    IN  /\ Len(d) = 3
        /\ d[1] \in {"n", "N"} /\ d[2] \in {"a", "A"} /\ d[3] \in {"n", "N"}

\* a floating numeral: digits with at most one point, at least one digit;
\* or nan
FloatText(text) ==
    LET d == Numeral(text)
    IN  \/ NanText(text)
        \/ /\ \A i \in 1..Len(d) : IsDigit(d[i]) \/ d[i] = "."
           /\ Cardinality({i \in 1..Len(d) : d[i] = "."}) <= 1
           /\ \E i \in 1..Len(d) : IsDigit(d[i])

\* a line that is to yield a transaction: 8 fields, numeric Quantity and
\* UnitPrice
Acceptable(line) ==
    /\ PipeCount(line) = 7
    /\ IntegerText(FieldText(line, 5))
    /\ FloatText(FieldText(line, 6))

Unacceptable(line) == ~Acceptable(line)

\* the lines that are to yield a transaction, in input order
AcceptedLines == SelectSeq(raw_lines, Acceptable)

\* C8: every line is processed on its own: a line without exactly 8 fields,
\* or with a non-numeric Quantity or UnitPrice after comma stripping, is
\* skipped and counted and does not end the batch; every other line yields
\* exactly one transaction, in input order, and parsed + skipped = number of
\* input lines.
C8_LinesIndependent ==
    Parsed =>
        /\ Len(transactions) = Len(AcceptedLines)
        /\ skipped_count = Count(raw_lines, Unacceptable)
        /\ Len(transactions) + skipped_count = Len(raw_lines)
        /\ \A j \in 1..Len(transactions) :
               IF j <= Len(AcceptedLines)
               THEN transactions[j]["TransactionID"]
                        = Strip(FieldText(AcceptedLines[j], 1))
               ELSE FALSE

\* C8 witness: a 7-field line and a line with a non-numeric Quantity were
\* skipped, and the line after them was parsed
C8_Witness ==
    /\ Parsed
    /\ Len(raw_lines) = 3
    /\ PipeCount(raw_lines[1]) = 6
    /\ PipeCount(raw_lines[2]) = 7 /\ ~IntegerText(FieldText(raw_lines[2], 5))
    /\ Acceptable(raw_lines[3])
    /\ skipped_count = 2
    /\ Len(transactions) = 1

\* out is raw without its surrounding whitespace
IsTrimOf(out, raw) ==
    /\ out # <<>> => ~IsSpace(out[1]) /\ ~IsSpace(out[Len(out)])
    /\ \E a \in 1..(Len(raw) + 1), b \in 0..Len(raw) :
          /\ out = SubSeq(raw, a, b)
          /\ \A i \in 1..(a - 1) : IsSpace(raw[i])
          /\ \A i \in (b + 1)..Len(raw) : IsSpace(raw[i])

\* out is raw, trimmed, with each comma turned into one space
IsCommaFreeTrimOf(out, raw) ==
    /\ \A k \in 1..Len(out) : out[k] # ","
    /\ \E a \in 1..(Len(raw) + 1), b \in 0..Len(raw) :
          /\ IsTrimOf(SubSeq(raw, a, b), raw)
          /\ Len(out) = b - a + 1
          /\ \A k \in 1..Len(out) :
                out[k] = IF raw[a + k - 1] = "," THEN " " ELSE raw[a + k - 1]

\* the digits and the point of a numeric text, its commas left out
Figures(text) == SelectSeq(text, LAMBDA c : IsDigit(c) \/ c = ".")

\* the number written by text, in thousandths, its commas ignored
RECURSIVE FiguresValue(_, _, _)
FiguresValue(f, i, point) ==
    IF i > Len(f) THEN 0
    ELSE (IF i < point THEN DigitVal(f[i]) * Pow10(3 + point - 1 - i)
          ELSE IF i > point THEN DigitVal(f[i]) * Pow10(3 - (i - point))
          ELSE 0)
         + FiguresValue(f, i + 1, point)

Thousandths(text) ==
    LET f     == Figures(text)
        point == IF \E i \in 1..Len(f) : f[i] = "."
                 THEN CHOOSE i \in 1..Len(f) : f[i] = "."
                 ELSE Len(f) + 1
        n     == FiguresValue(f, 1, point)
    IN  IF \E i \in 1..Len(text) : text[i] = "-" THEN 0 - n ELSE n

\* C9: the transaction produced for an accepted line has every field
\* trimmed of surrounding whitespace, ProductName then with each comma
\* replaced by exactly one space (same length, no comma left), Quantity the
\* integer written by the quantity text with its commas removed, UnitPrice
\* the decimal value of the price text with its commas removed, and the
\* other fields copied as they are.
C9_FieldsNormalized ==
    (Parsed /\ Len(transactions) = Len(AcceptedLines)) =>
        \A j \in 1..Len(transactions) :
            LET t    == transactions[j]
                line == AcceptedLines[j]
            IN  /\ IsTrimOf(t["TransactionID"], FieldText(line, 1))
                /\ IsTrimOf(t["Date"], FieldText(line, 2))
                /\ IsTrimOf(t["ProductID"], FieldText(line, 3))
                /\ IsCommaFreeTrimOf(t["ProductName"], FieldText(line, 4))
                /\ t["Quantity"] * 1000 = Thousandths(FieldText(line, 5))
                /\ IF NanText(FieldText(line, 6)) THEN t["UnitPrice"] = NaN
                   ELSE t["UnitPrice"] = Num(Thousandths(FieldText(line, 6)))
                /\ IsTrimOf(t["CustomerID"], FieldText(line, 7))
                /\ IsTrimOf(t["Region"], FieldText(line, 8))
                /\ DOMAIN t = AllFields

\* C9 witness: ' T2 |d2| P12|a,,b| 1,0|0,0.05|C2|<tab>S' gave ProductName
\* 'a  b', Quantity 10 and UnitPrice 0.05
C9_Witness ==
    /\ Parsed
    /\ \E j \in 1..Len(transactions) :
          /\ transactions[j]["ProductName"] = <<"a", " ", " ", "b">>
          /\ transactions[j]["Quantity"] = 10
          /\ transactions[j]["UnitPrice"] = Num(50)
          /\ transactions[j]["Region"] = <<"S">>
          /\ transactions[j]["TransactionID"] = <<"T", "2">>

----------------------------------------------------------------------------
(* Total revenue.                                                          *)

\* Quantity * UnitPrice of ts[i] in exact arithmetic, in thousandths
ExactRevenue(ts, i) ==
    Get(ts[i], "Quantity", 0) * Get(ts[i], "UnitPrice", Num(0)).v

RECURSIVE ExactSum(_, _)
ExactSum(ts, among) ==
    IF among = {} THEN 0
    ELSE LET i == CHOOSE k \in among : TRUE
         IN  ExactRevenue(ts, i) + ExactSum(ts, among \ {i})

AnyNaN(ts) ==
    \E i \in 1..Len(ts) : Get(ts[i], "UnitPrice", Num(0)).nan

\* an exact value rounded to 2 decimal places
RoundedExact(n) ==
    LET m == RoundHalfEvenDiv(Abs(n), 10) * 10
    IN  Num(IF n < 0 THEN 0 - m ELSE m)

\* the sum of Quantity * UnitPrice over ts, rounded to 2 decimal places
SumRounded(ts) ==
    IF AnyNaN(ts) THEN NaN ELSE RoundedExact(ExactSum(ts, 1..Len(ts)))

\* no product and no partial sum, in any order, is rounded by the float
\* arithmetic: each is representable as it stands
NoRounding(ts) ==
    /\ \A i \in 1..Len(ts) : Fl(ExactRevenue(ts, i)) = ExactRevenue(ts, i)
    /\ \A among \in SUBSET (1..Len(ts)) :
           Fl(ExactSum(ts, among)) = ExactSum(ts, among)

\* C10 (as claimed): calculate_total_revenue returns the sum over all
\* transactions of Quantity * UnitPrice rounded to 2 decimal places, and the
\* result does not depend on the order of the transactions.
C10_SumAnyOrder ==
    Returned =>
        /\ total_revenue[1] = SumRounded(valid_trans)
        /\ \A f \in Orders(Len(valid_trans)) :
               calculate_total_revenue(Reordered(valid_trans, f))
                   = total_revenue[1]

\* C10 (amended): calculate_total_revenue returns the float total
\* accumulated from 0.0 in list order, rounded to 2 decimal places; a NaN
\* revenue makes it NaN; and when no product and no partial sum, in any
\* order, is rounded by the float arithmetic, it is the exact sum rounded to
\* 2 decimal places and the same for every order of the transactions.
C10_SumWhenExact ==
    Returned =>
        /\ AnyNaN(valid_trans) => total_revenue[1] = NaN
        /\ (~AnyNaN(valid_trans) /\ NoRounding(valid_trans)) =>
              /\ total_revenue[1] = SumRounded(valid_trans)
              /\ \A f \in Orders(Len(valid_trans)) :
                     calculate_total_revenue(Reordered(valid_trans, f))
                         = total_revenue[1]

\* C10 witness: revenues 0.004, 0.002 and 0.004 add up exactly to 0.01; the
\* total returned is 0.01
C10_Witness ==
    /\ Returned
    /\ Len(valid_trans) = 3
    /\ ~AnyNaN(valid_trans)
    /\ NoRounding(valid_trans)
    /\ ExactRevenue(valid_trans, 1) = 4
    /\ ExactRevenue(valid_trans, 2) = 2
    /\ ExactRevenue(valid_trans, 3) = 4
    /\ total_revenue = Some(Num(10))

----------------------------------------------------------------------------
(* Regional percentages.                                                   *)

\* the indices of the transactions of ts that fall in the group of key
GroupOf(ts, field, key) ==
    {i \in 1..Len(ts) : Get(ts[i], field, Unknown) = key}

\* no float operation of region_wise_sales before the final round(..., 2)
\* had to round: the sums are exact and each percentage is a representable
\* number
PercentagesExact(ts) ==
    /\ ~AnyNaN(ts)
    /\ NoRounding(ts)
    /\ LET total == SumRounded(ts).v
       IN  total > 0 =>
               \A region \in Distinct(ts, "Region") :
                   LET part == ExactSum(ts, GroupOf(ts, "Region", region))
                                  * 100000
                   IN  /\ part % total = 0
                       /\ Fl(part \div total) = part \div total

RECURSIVE PercentageSum(_)
PercentageSum(stats) ==
    IF stats = <<>> THEN 0
    ELSE stats[1][2].percentage.v + PercentageSum(Tail(stats))

RegionsReturned == pc = "returned" /\ region_stats # None

\* every transaction of ts passes the six validation rules
AllAdmissible(ts) == \A i \in 1..Len(ts) : SixRulesPass(ts[i])

\* C11: when total_revenue > 0 the percentage values of region_wise_sales
\* add up to 100, give or take 0.005 for each region (the rounding of each
\* percentage to 2 decimals); when total_revenue is 0 each percentage is 0.
C11_PercentagesSumTo100 ==
    (/\ RegionsReturned
     /\ AllAdmissible(valid_trans)
     /\ PercentagesExact(valid_trans)) =>
        LET stats == region_stats[1]
            total == SumRounded(valid_trans).v
        IN  /\ total > 0 =>
                  Abs(PercentageSum(stats) - 100000) <= 5 * Len(stats)
            /\ total = 0 =>
                  \A i \in 1..Len(stats) : stats[i][2].percentage = Num(0)

----------------------------------------------------------------------------
(* Products by quantity.                                                   *)

\* the sum of Quantity over the transactions of ts indexed by among
RECURSIVE QuantityOver(_, _)
QuantityOver(ts, among) ==
    IF among = {} THEN 0
    ELSE LET i == CHOOSE k \in among : TRUE
         IN  Get(ts[i], "Quantity", 0) + QuantityOver(ts, among \ {i})

\* summed quantity of a product, and where the product first appears
ProductQuantity(ts, name) ==
    QuantityOver(ts, GroupOf(ts, "ProductName", name))

FirstSeen(ts, field, key) ==
    CHOOSE i \in GroupOf(ts, field, key) :
        \A j \in GroupOf(ts, field, key) : i <= j

\* product a ranks before product b: more sold, or as much and seen earlier
RanksBefore(ts, a, b) ==
    \/ ProductQuantity(ts, a) > ProductQuantity(ts, b)
    \/ /\ ProductQuantity(ts, a) = ProductQuantity(ts, b)
       /\ FirstSeen(ts, "ProductName", a) < FirstSeen(ts, "ProductName", b)

\* the transactions of one product, in list order
SalesOf(ts, name) ==
    SelectSeq(ts, LAMBDA t : Get(t, "ProductName", Unknown) = name)

\* a tuple of a product list holds the product's summed quantity and, when
\* the float sum is exact, its summed revenue to 2 decimals
TupleHoldsSums(ts, tuple) ==
    /\ tuple[1] \in Distinct(ts, "ProductName")
    /\ tuple[2] = ProductQuantity(ts, tuple[1])
    /\ NoRounding(SalesOf(ts, tuple[1])) =>
           tuple[3] = SumRounded(SalesOf(ts, tuple[1]))

Names(list) == {list[i][1] : i \in 1..Len(list)}

TopReturned == pc = "returned" /\ top_products # None

\* C12: for every list and every n, negative, zero or large,
\* top_selling_products returns at most n entries; they are the first n of
\* the products ranked by summed quantity descending, ties in first-seen
\* order, so each quantity is >= the next; each tuple holds the product's
\* summed quantity and summed revenue.
C12_TopNRanked ==
    TopReturned =>
        LET top      == top_products[1]
            products == Distinct(valid_trans, "ProductName")
        IN  /\ Len(top) <= (IF top_n > 0 THEN top_n ELSE 0)
            /\ top_n >= 0 =>
                   Len(top) = IF top_n < Cardinality(products) THEN top_n
                              ELSE Cardinality(products)
            /\ \A i \in 1..Len(top) : TupleHoldsSums(valid_trans, top[i])
            /\ \A i \in 1..(Len(top) - 1) :
                   /\ top[i][2] >= top[i + 1][2]
                   /\ RanksBefore(valid_trans, top[i][1], top[i + 1][1])
            /\ \A a \in Names(top), b \in products \ Names(top) :
                   RanksBefore(valid_trans, a, b)

LowReturned == pc = "returned" /\ low_products # None

\* C13: low_performing_products(s, t) holds exactly the products whose
\* summed quantity is < t, each once with its sums, in ascending order of
\* summed quantity.
C13_LowPerformersExact ==
    LowReturned =>
        LET low == low_products[1]
        IN  /\ Names(low) =
                   {name \in Distinct(valid_trans, "ProductName") :
                        ProductQuantity(valid_trans, name) < threshold}
            /\ Len(low) = Cardinality(Names(low))
            /\ \A i \in 1..Len(low) :
                   /\ TupleHoldsSums(valid_trans, low[i])
                   /\ low[i][2] < threshold
            /\ \A i \in 1..(Len(low) - 1) : low[i][2] <= low[i + 1][2]

\* C13 witness: with threshold 2, two products that sold 1 are returned and
\* a product that sold exactly 2 is left out
C13_Witness ==
    /\ LowReturned
    /\ threshold = 2
    /\ Len(low_products[1]) = 2
    /\ \E name \in Distinct(valid_trans, "ProductName") :
           ProductQuantity(valid_trans, name) = 2

----------------------------------------------------------------------------
(* The aggregations on an empty list.                                      *)

\* C14: on an empty list every aggregation returns its empty or zero value:
\* calculate_total_revenue 0.0, region_wise_sales {}, top_selling_products
\* [], low_performing_products [], customer_analysis {}, daily_sales_trend
\* {}, find_peak_sales_day (None, 0.0, 0).
C14_EmptyListValues ==
    valid_trans = <<>> =>
        /\ total_revenue \in {None, Some(Num(0))}
        /\ region_stats \in {None, Some(<<>>)}
        /\ top_products \in {None, Some(<<>>)}
        /\ low_products \in {None, Some(<<>>)}
        /\ customer_stats \in {None, Some(<<>>)}
        /\ daily_trend \in {None, Some(<<>>)}
        /\ peak_day \in {None, Some(<<None, Num(0), 0>>)}

\* C14 witness: all seven functions have returned for the empty list
C14_Witness ==
    /\ valid_trans = <<>>
    /\ pc = "call_series"
    /\ total_revenue # None
    /\ region_stats # None
    /\ top_products # None
    /\ low_products # None
    /\ customer_stats # None
    /\ daily_trend # None
    /\ peak_day # None

----------------------------------------------------------------------------
(* The pipeline without a catalog.                                         *)

\* main is past Step 7 and the fetch gave no products
EnrichedWithoutCatalog ==
    pc \in {"save", "report", "done"} /\ api_products = <<>>

\* a record marked unmatched: API_Match false and the three API fields null
MarkedUnmatched(t) ==
    /\ ApiFields \subseteq DOMAIN t
    /\ t["API_Match"] = FALSE
    /\ t["API_Category"] = None
    /\ t["API_Brand"] = None
    /\ t["API_Rating"] = None

\* C15: when fetch_all_products gives nothing, main goes on to saving and
\* reporting, and the enrichment stage hands on one record per admitted
\* transaction, each marked unmatched.
C15_NoCatalogAllUnmatched ==
    EnrichedWithoutCatalog =>
        /\ Len(enriched_trans) = Len(valid_trans)
        /\ \A i \in 1..Len(enriched_trans) : MarkedUnmatched(enriched_trans[i])

----------------------------------------------------------------------------
(* Enrichment of records that cannot be looked up.                         *)

\* the ProductID of t is there but is no str, so the search for digits fails
Unsearchable(t) == "ProductID" \in DOMAIN t /\ ~IsStr(t["ProductID"])

\* C16: a transaction whose enrichment fails (ProductID missing, None or not
\* a str) comes back as a no-match record, with its own fields kept; the
\* call returns one record for every transaction, and the transactions
\* around the failing one are enriched as they are on their own.
C16_FailureDegradesOneRecord ==
    Returned =>
        /\ Len(enriched_trans) = Len(valid_trans)
        /\ \A i \in 1..Len(valid_trans) :
              LET t == valid_trans[i]
                  e == enriched_trans[i]
              IN  /\ DOMAIN e = DOMAIN t \cup ApiFields
                  /\ \A k \in DOMAIN t : e[k] = t[k]
                  /\ (Unsearchable(t) \/ "ProductID" \notin DOMAIN t) =>
                         MarkedUnmatched(e)
                  /\ (~Unsearchable(t) /\ "ProductID" \in DOMAIN t) =>
                         e["API_Match"] =
                             (KeyOf(t["ProductID"], product_mapping) # {})

\* C16 witness: a None ProductID and an int ProductID came back unmatched,
\* and the record after them matched catalog entry 5
C16_Witness ==
    /\ Returned
    /\ Len(valid_trans) = 3
    /\ Unsearchable(valid_trans[1])
    /\ Unsearchable(valid_trans[2])
    /\ valid_trans[1]["ProductID"] = PyNone
    /\ valid_trans[2]["ProductID"] = PyInt(<<"5">>)
    /\ 5 \in DOMAIN product_mapping
    /\ MarkedUnmatched(enriched_trans[1])
    /\ MarkedUnmatched(enriched_trans[2])
    /\ enriched_trans[3]["API_Match"]

----------------------------------------------------------------------------
(* Validation of records of any shape.                                     *)

\* a record that lacks a required key, or whose UnitPrice is no number
Malformed(t) ==
    \/ \E i \in 1..Len(required_fields) : required_fields[i] \notin DOMAIN t
    \/ Rule3Raises(t)

\* the call of validate_and_filter is over
ValidationOver == pc # "validate"

\* C17: validate_and_filter returns its triple for every input and never
\* raises; a record with a missing key, or with a UnitPrice that is None or
\* not a number, is counted as rejected.
C17_ValidationNeverRaises ==
    ValidationOver =>
        /\ pc # "raised"
        /\ filter_summary # None
        /\ invalid_count >= Count(transactions, Malformed)
        /\ \A i \in 1..Len(valid_trans) : ~Malformed(valid_trans[i])

----------------------------------------------------------------------------
(* Purity of the aggregations.                                             *)

\* every result a caller holds is what the function returns for the list now
ResultsRepeatable ==
    /\ total_revenue # None =>
           total_revenue[1] = calculate_total_revenue(valid_trans)
    /\ region_stats # None =>
           region_stats[1] \in region_wise_sales(valid_trans)
    /\ top_products # None =>
           top_products[1] = top_selling_products(valid_trans, top_n)
    /\ low_products # None =>
           low_products[1] = low_performing_products(valid_trans, threshold)
    /\ customer_stats # None =>
           customer_stats[1] \in customer_analysis(valid_trans)
    /\ daily_trend # None =>
           daily_trend[1] = daily_sales_trend(valid_trans)
    /\ peak_day # None => peak_day[1] = find_peak_sales_day(valid_trans)

----------------------------------------------------------------------------
(* Regions by revenue.                                                     *)

\* the transactions of one region, in list order
RegionSales(ts, region) ==
    SelectSeq(ts, LAMBDA t : Get(t, "Region", Unknown) = region)

\* group_revenue / total_revenue * 100 to 2 decimals, for an exact quotient
ExactPercentage(ts, region) ==
    LET total == SumRounded(ts).v
    IN  IF total > 0
        THEN RoundedExact((ExactSum(ts, GroupOf(ts, "Region", region))
                              * 100000) \div total)
        ELSE Num(0)

\* C19: region_wise_sales has one entry per distinct Region with the
\* region's summed Quantity * UnitPrice, its transaction count and
\* percentage = group revenue / total_revenue * 100; the entries are in
\* descending order of revenue, and regions of equal revenue are in the
\* order in which they first appear in the list.
C19_RegionStatsRanked ==
    region_stats # None =>
        LET stats == region_stats[1]
            ts    == valid_trans
        IN  /\ {stats[i][1] : i \in 1..Len(stats)} = Distinct(ts, "Region")
            /\ Len(stats) = Cardinality(Distinct(ts, "Region"))
            /\ \A i \in 1..Len(stats) :
                   LET region == stats[i][1]
                       entry  == stats[i][2]
                   IN  /\ entry.transaction_count =
                              Cardinality(GroupOf(ts, "Region", region))
                       /\ NoRounding(RegionSales(ts, region)) =>
                              entry.total_sales =
                                  SumRounded(RegionSales(ts, region))
                       /\ PercentagesExact(ts) =>
                              entry.percentage = ExactPercentage(ts, region)
            /\ \A i \in 1..(Len(stats) - 1) :
                   /\ FGe(stats[i][2].total_sales, stats[i + 1][2].total_sales)
                   /\ stats[i][2].total_sales = stats[i + 1][2].total_sales =>
                          FirstSeen(ts, "Region", stats[i][1])
                              < FirstSeen(ts, "Region", stats[i + 1][1])

----------------------------------------------------------------------------
(* The peak day.                                                           *)

\* C20: on a non-empty list find_peak_sales_day returns the date, revenue
\* and transaction count of an entry of daily_sales_trend whose revenue is
\* >= that of every other day; among days that tie for the maximum it is
\* the first of the trend, the smallest date.
C20_PeakDayIsMaximum ==
    (peak_day # None /\ valid_trans # <<>>) =>
        LET trend == daily_sales_trend(valid_trans)
            peak  == peak_day[1]
        IN  \E i \in 1..Len(trend) :
                /\ peak = <<Some(trend[i][1]), trend[i][2].revenue,
                            trend[i][2].transaction_count>>
                /\ \A j \in (1..Len(trend)) \ {i} :
                       /\ FGe(trend[i][2].revenue, trend[j][2].revenue)
                       /\ trend[j][2].revenue = trend[i][2].revenue
                              => StrLess(trend[i][1], trend[j][1])

----------------------------------------------------------------------------
(* Customers by spending.                                                  *)

\* the transactions of ts whose field is key, in list order
GroupSales(ts, field, key) ==
    SelectSeq(ts, LAMBDA t : Get(t, field, Unknown) = key)

\* names is in strictly ascending order: sorted, and no name twice
StrictlyAscending(names) ==
    \A i \in 1..(Len(names) - 1) : StrLess(names[i], names[i + 1])

\* total / count to 2 decimals, where the quotient is exact
ExactAverage(sales) ==
    RoundedExact(ExactSum(sales, 1..Len(sales)) \div Len(sales))

AverageExact(sales) ==
    /\ ~AnyNaN(sales)
    /\ NoRounding(sales)
    /\ ExactSum(sales, 1..Len(sales)) % Len(sales) = 0
    /\ LET q == ExactSum(sales, 1..Len(sales)) \div Len(sales)
       IN  Fl(q) = q

\* C21: customer_analysis has one entry per distinct CustomerID, holding
\* total_spent = the sum of Quantity * UnitPrice, purchase_count = the number
\* of the customer's transactions, avg_order_value = total_spent /
\* purchase_count and products_bought = the product names bought, each once
\* and in ascending order; the entries are in descending order of
\* total_spent.
C21_CustomerStatsRanked ==
    customer_stats # None =>
        LET stats == customer_stats[1]
            ts    == valid_trans
        IN  /\ {stats[i][1] : i \in 1..Len(stats)}
                   = Distinct(ts, "CustomerID")
            /\ Len(stats) = Cardinality(Distinct(ts, "CustomerID"))
            /\ \A i \in 1..Len(stats) :
                   LET sales == GroupSales(ts, "CustomerID", stats[i][1])
                       entry == stats[i][2]
                   IN  /\ entry.purchase_count = Len(sales)
                       /\ NoRounding(sales) =>
                              entry.total_spent = SumRounded(sales)
                       /\ AverageExact(sales) =>
                              entry.avg_order_value = ExactAverage(sales)
                       /\ StrictlyAscending(entry.products_bought)
                       /\ {entry.products_bought[k] :
                              k \in 1..Len(entry.products_bought)}
                              = Distinct(sales, "ProductName")
            /\ \A i \in 1..(Len(stats) - 1) :
                   FGe(stats[i][2].total_spent, stats[i + 1][2].total_spent)

----------------------------------------------------------------------------
(* The daily trend.                                                        *)

----------------------------------------------------------------------------
(* The stop after validation.                                              *)

\* validate_and_filter has returned to main
ValidationReturned == filter_summary # None

\* no step after validation has left a trace
NothingAfterValidation ==
    /\ NotAnalyzed
    /\ total_revenue = None
    /\ api_products = <<>>
    /\ product_mapping = <<>>
    /\ enriched_trans = <<>>

AfterValidation == {"analyze", "fetch", "enrich", "save", "report", "done"}

\* C23: once validate_and_filter has returned, main stops exactly when the
\* admitted set is empty: then no step of aggregation, fetch, enrichment,
\* save or report is ever taken; when the admitted set is not empty main is
\* at the aggregation or past it, and its step from there is the
\* aggregation.
C23_StopsIffNothingAdmitted ==
    /\ [](ValidationReturned =>
             IF valid_trans = <<>>
             THEN pc = "stopped" /\ NothingAfterValidation
             ELSE pc \in AfterValidation)
    /\ [][pc = "stopped" => pc' = "stopped"]_vars
    /\ [](pc \in AfterValidation => valid_trans # <<>>)
    /\ [][pc = "analyze" => pc' = "fetch" /\ total_revenue' # None]_vars

\* records were parsed, and validation or the filters removed them all
C23_Witness ==
    /\ ValidationReturned
    /\ transactions # <<>>
    /\ valid_trans = <<>>
    /\ pc = "stopped"

----------------------------------------------------------------------------
(* The order of the stages of main.                                        *)

\* the place of a position of main in the order of its steps; 0 is the
\* return before the end
StageOf(position) ==
    CASE position = "parse"    -> 1
      [] position = "filters"  -> 2
      [] position = "validate" -> 3
      [] position = "analyze"  -> 4
      [] position = "fetch"    -> 5
      [] position = "enrich"   -> 6
      [] position = "save"     -> 7
      [] position = "report"   -> 8
      [] position = "done"     -> 9
      [] OTHER                 -> 0

\* main has not yet gone through the step of this position
Before(position) == StageOf(pc) \in 1..StageOf(position)

\* t without the fields that are not in keys
Only(t, keys) == [k \in DOMAIN t \cap keys |-> t[k]]

\* the results of Step 5 are those of the admitted set
AggregatedFromAdmitted ==
    total_revenue # None =>
        /\ total_revenue[1] = calculate_total_revenue(valid_trans)
        /\ region_stats[1] \in region_wise_sales(valid_trans)
        /\ top_products[1] = top_selling_products(valid_trans, TopN)
        /\ customer_stats[1] \in customer_analysis(valid_trans)
        /\ daily_trend[1] = daily_sales_trend(valid_trans)
        /\ peak_day[1] = find_peak_sales_day(valid_trans)
        /\ low_products[1] =
               low_performing_products(valid_trans, LowThreshold)

\* the enriched list is the admitted set, record for record
EnrichedFromAdmitted ==
    StageOf(pc) >= StageOf("save") =>
        /\ Len(enriched_trans) = Len(valid_trans)
        /\ \A i \in 1..Len(valid_trans) :
               Only(enriched_trans[i], DOMAIN valid_trans[i]) = valid_trans[i]

\* the analyses in the report are those main made before the enrichment;
\* where a NaN amount leaves the order of regions and customers to the
\* sort, the entries are the same
ReportRepeatsAnalyses ==
    report # None =>
        /\ report[1].total_revenue = total_revenue[1]
        /\ report[1].top_products = top_products[1]
        /\ report[1].daily_trend = daily_trend[1]
        /\ report[1].peak_day = peak_day[1]
        /\ report[1].low_products = low_products[1]
        /\ {report[1].region_stats[i] :
               i \in 1..Len(report[1].region_stats)}
               = {region_stats[1][i] : i \in 1..Len(region_stats[1])}
        /\ {report[1].customer_stats[i] :
               i \in 1..Len(report[1].customer_stats)}
               = {customer_stats[1][i] : i \in 1..Len(customer_stats[1])}
        /\ ~AnyNaN(valid_trans) =>
               /\ report[1].region_stats = region_stats[1]
               /\ report[1].customer_stats = customer_stats[1]

\* C24: the steps of main are taken in the order parse, validate/filter,
\* aggregate, enrich, each after the one before it has finished; the
\* aggregation and the enrichment both work on the admitted set of
\* validate_and_filter, and the results of the aggregation, those in the
\* report included, are the same whether and however the enrichment ran.
C24_StagesInOrder ==
    /\ [][pc' = "stopped" \/ StageOf(pc') = StageOf(pc) + 1]_vars
    /\ [](Before("parse") => transactions = <<>>)
    /\ [](Before("validate") => ~ValidationReturned /\ valid_trans = <<>>)
    /\ [](Before("analyze") => total_revenue = None /\ NotAnalyzed)
    /\ [](Before("enrich") =>
             enriched_trans = <<>> /\ product_mapping = <<>>)
    /\ []AggregatedFromAdmitted
    /\ []EnrichedFromAdmitted
    /\ [][StageOf(pc) >= StageOf("fetch") =>
             UNCHANGED <<valid_trans, total_revenue, region_stats,
                         top_products, customer_stats, daily_trend,
                         peak_day, low_products>>]_vars
    /\ []ReportRepeatsAnalyses

\* a run to the end in which validation rejected a record and the
\* enrichment matched one
C24_Witness ==
    /\ pc = "done"
    /\ report # None
    /\ Len(valid_trans) < Len(transactions)
    /\ report[1].enriched_count > 0

----------------------------------------------------------------------------
(* Amount bounds that are not numbers.                                     *)

\* text writes a number: digits with at most one point, after an optional
\* sign
NumberText(text) ==
    LET d == Unsigned(Strip(text))
    IN  /\ \A i \in 1..Len(d) : IsDigit(d[i]) \/ d[i] = "."
        /\ Cardinality({i \in 1..Len(d) : d[i] = "."}) <= 1
        /\ \E i \in 1..Len(d) : IsDigit(d[i])

\* something was typed, and it is not a number
NonNumeric(text) == text # <<>> /\ ~NumberText(text)

\* the bound a typed text stands for: none when nothing or no number was
\* typed
BoundTyped(text) ==
    IF NumberText(text) THEN Some(Num(Thousandths(text))) ELSE None

\* the amount of t is within the bounds that were typed as numbers
WithinTyped(t) ==
    /\ BoundTyped(filter_min) # None =>
           FGe(t["Amount"], BoundTyped(filter_min)[1])
    /\ BoundTyped(filter_max) # None =>
           FLe(t["Amount"], BoundTyped(filter_max)[1])

\* C25: a min or max amount typed in apply_filters that is not a number is
\* passed to validate_and_filter as None, and the admitted set is what it
\* would be had that bound not been typed: the region filter and the other
\* bound, if it is a number, still apply.
C25_NonNumericBoundIsNoBound ==
    ValidationReturned =>
        /\ NonNumeric(filter_min) => min_amount = None
        /\ NonNumeric(filter_max) => max_amount = None
        /\ valid_trans = SelectSeq(RegionKept, WithinTyped)

----------------------------------------------------------------------------
(* Where the rounding is done.                                             *)

\* the full-precision revenue of a group, in thousandths
GroupRevenue(ts, field, key) == ExactSum(ts, GroupOf(ts, field, key))

\* the entries of an ordered dict are in descending order of the
\* full-precision revenue of their groups
RankedByFullRevenue(stats, ts, field) ==
    \A i \in 1..(Len(stats) - 1) :
        GroupRevenue(ts, field, stats[i][1])
            >= GroupRevenue(ts, field, stats[i + 1][1])

\* the percentage of each region is that of the full-precision total,
\* where the quotient is exact
PercentagesOfFullTotal(stats, ts) ==
    LET total == ExactSum(ts, 1..Len(ts))
    IN  \A i \in 1..Len(stats) :
            LET part == GroupRevenue(ts, "Region", stats[i][1]) * 100000
            IN  (total > 0 /\ part % total = 0
                    /\ Fl(part \div total) = part \div total) =>
                    stats[i][2].percentage = RoundedExact(part \div total)

\* the floats of the list are numbers and their sums are exact
FullPrecision(ts) == AllAdmissible(ts) /\ ~AnyNaN(ts) /\ NoRounding(ts)

\* C26: the aggregators compute with full-precision sums and round only
\* what they report: region percentages are taken of the unrounded total,
\* regions and customers are ordered by their unrounded revenue, and the
\* peak day is a day of greatest unrounded revenue.
C26_RoundingOnlyWhenReported ==
    FullPrecision(valid_trans) =>
        /\ region_stats # None =>
               /\ RankedByFullRevenue(region_stats[1], valid_trans, "Region")
               /\ PercentagesOfFullTotal(region_stats[1], valid_trans)
        /\ customer_stats # None =>
               RankedByFullRevenue(customer_stats[1], valid_trans,
                                   "CustomerID")
        /\ (peak_day # None /\ valid_trans # <<>>) =>
               \A date \in Distinct(valid_trans, "Date") :
                   GroupRevenue(valid_trans, "Date", peak_day[1][1][1])
                       >= GroupRevenue(valid_trans, "Date", date)

----------------------------------------------------------------------------
(* The filter summary.                                                     *)

\* C27: the summary returned by validate_and_filter adds up: total_input =
\* invalid + filtered_by_region + filtered_by_amount + final_count, where
\* total_input is the length of the input, final_count the length of the
\* returned list and invalid the returned count of rejected records; none
\* of the five is negative.
C27_SummaryAddsUp ==
    Validated =>
        LET summary == filter_summary[1]
        IN  /\ summary.total_input =
                   summary.invalid + summary.filtered_by_region
                       + summary.filtered_by_amount + summary.final_count
            /\ summary.total_input = Len(transactions)
            /\ summary.final_count = Len(valid_trans)
            /\ summary.invalid = invalid_count
            /\ summary.total_input >= 0
            /\ summary.invalid >= 0
            /\ summary.filtered_by_region >= 0
            /\ summary.filtered_by_amount >= 0
            /\ summary.final_count >= 0

\* one record was rejected, one removed by region and one by amount
C27_Witness ==
    /\ Validated
    /\ filter_summary[1].invalid = 1
    /\ filter_summary[1].filtered_by_region = 1
    /\ filter_summary[1].filtered_by_amount = 1

----------------------------------------------------------------------------
(* What validate_and_filter does to its input.                             *)

\* the items of list at the positions kept, in their order
RECURSIVE Picked(_, _)
Picked(list, kept) ==
    IF list = <<>> THEN <<>>
    ELSE LET rest == Picked(SubSeq(list, 1, Len(list) - 1), kept)
         IN  IF Len(list) \in kept THEN Append(rest, list[Len(list)])
             ELSE rest

\* part is list with some of its items left out
IsSubsequence(part, list) ==
    \E kept \in SUBSET (1..Len(list)) : part = Picked(list, kept)

\* after is before with nothing changed but Amount = Quantity * UnitPrice
OnlyAmountAdded(before, after) ==
    /\ DOMAIN after = DOMAIN before \cup {"Amount"}
    /\ \A k \in DOMAIN before \ {"Amount"} : after[k] = before[k]
    /\ after["Amount"] = FMul(before["Quantity"], before["UnitPrice"])

\* the call of validate_and_filter that returns
ValidateReturns == pc = "validate" /\ filter_summary' # None

\* C28: validate_and_filter returns some of the records of its input in
\* their input order, none twice; the caller's list keeps its length and
\* order; a rejected record is left as it was, and a record that passes
\* validation gains the Amount field and is not changed otherwise, whether
\* or not the region or amount filter removes it afterwards.
C28_InputKeptAmountAdded ==
    [][ValidateReturns =>
          /\ Len(transactions') = Len(transactions)
          /\ \A i \in 1..Len(transactions) :
                 IF IsValid(transactions[i])
                 THEN OnlyAmountAdded(transactions[i], transactions'[i])
                 ELSE transactions'[i] = transactions[i]
          /\ IsSubsequence(valid_trans', transactions')]_vars

\* a record that passed validation and was then removed by a filter holds
\* its Amount, next to a rejected record
C28_Witness ==
    /\ Validated
    /\ \E i, j \in 1..Len(transactions) :
           /\ IsValid(transactions[i])
           /\ "Amount" \in DOMAIN transactions[i]
           /\ \A k \in 1..Len(valid_trans) :
                  valid_trans[k] # transactions[i]
           /\ ~IsValid(transactions[j])
           /\ "Amount" \notin DOMAIN transactions[j]
    /\ valid_trans # <<>>

----------------------------------------------------------------------------
(* What enrich_sales_data does to its inputs.                              *)

\* the call of enrich_sales_data
EnrichReturns == pc = "call_enrich" /\ pc' = "returned"

\* C29: enrich_sales_data leaves its inputs as they were: the transactions
\* keep their fields and values, the mapping keeps its keys and entries;
\* every enriched record holds the fields of its transaction with the same
\* values and, in addition, exactly API_Category, API_Brand, API_Rating and
\* API_Match.
C29_EnrichLeavesInputs ==
    [][EnrichReturns =>
          /\ valid_trans' = valid_trans
          /\ product_mapping' = product_mapping
          /\ Len(enriched_trans') = Len(valid_trans)
          /\ \A i \in 1..Len(valid_trans) :
                 /\ DOMAIN valid_trans[i] \cap ApiFields = {}
                 /\ DOMAIN enriched_trans'[i]
                        = DOMAIN valid_trans[i] \cup ApiFields
                 /\ \A k \in DOMAIN valid_trans[i] :
                        enriched_trans'[i][k] = valid_trans[i][k]]_vars

\* the pass matched one record, left one unmatched and met one whose
\* ProductID is not a str, against a mapping that holds entries
C29_Witness ==
    /\ Returned
    /\ product_mapping # <<>>
    /\ \E i, j, k \in 1..Len(enriched_trans) :
           /\ enriched_trans[i]["API_Match"]
           /\ ~enriched_trans[j]["API_Match"]
           /\ "ProductID" \in DOMAIN valid_trans[k]
           /\ ~IsStr(valid_trans[k]["ProductID"])

----------------------------------------------------------------------------
(* The views partition the list.                                           *)

\* the keys of an ordered dict
KeysOf(stats) == {stats[i][1] : i \in 1..Len(stats)}

\* the distinct values of field in ts; a transaction that lacks the field
\* stands under 'Unknown'
FieldValues(ts, field) ==
    {ts[i][field] : i \in {j \in 1..Len(ts) : field \in DOMAIN ts[j]}}
        \cup (IF \E j \in 1..Len(ts) : field \notin DOMAIN ts[j]
              THEN {Unknown} ELSE {})

\* the sum of the count field over the entries of an ordered dict
RECURSIVE CountSum(_, _)
CountSum(stats, count) ==
    IF stats = <<>> THEN 0
    ELSE stats[1][2][count] + CountSum(Tail(stats), count)

\* the keys of stats are the values of field, each once, and the counts add
\* up to the number of transactions
Partitions(stats, ts, field, count) ==
    /\ KeysOf(stats) = FieldValues(ts, field)
    /\ Len(stats) = Cardinality(KeysOf(stats))
    /\ CountSum(stats, count) = Len(ts)

\* C30: the keys of region_wise_sales, customer_analysis and
\* daily_sales_trend are exactly the distinct Region, CustomerID and Date
\* values of the list, and transaction_count over the regions,
\* purchase_count over the customers and transaction_count over the days
\* each add up to the number of transactions.
C30_ViewsPartition ==
    /\ region_stats # None =>
           Partitions(region_stats[1], valid_trans, "Region",
                      "transaction_count")
    /\ customer_stats # None =>
           Partitions(customer_stats[1], valid_trans, "CustomerID",
                      "purchase_count")
    /\ daily_trend # None =>
           Partitions(daily_trend[1], valid_trans, "Date",
                      "transaction_count")

\* the three views of a list of two transactions of one customer on one
\* day in two regions
C30_Witness ==
    /\ region_stats # None
    /\ customer_stats # None
    /\ daily_trend # None
    /\ Len(valid_trans) = 2
    /\ Len(region_stats[1]) = 2
    /\ Len(customer_stats[1]) = 1
    /\ Len(daily_trend[1]) = 1

====
